---- MODULE Spec2Model ----
(***************************************************************************)
(* QuantStack: the backtest simulator (src/trading/backtest.py), its       *)
(* diagnostics and the signal generators (src/analytics/signals.py).       *)
(*                                                                         *)
(* Numbers.  A pandas/numpy float is modelled by an exact value of the     *)
(* extended rationals: <<n, d>> with d > 0 and gcd(n, d) = 1 is n/d,       *)
(* <<0, 0>> is NaN, <<1, 0>> is +inf and <<-1, 0>> is -inf.  The           *)
(* arithmetic follows IEEE-754 on these values (x/0 is +-inf, 0/0 and      *)
(* inf-inf are NaN, a comparison with NaN is false); rounding error is     *)
(* not modelled.                                                           *)
(***************************************************************************)
EXTENDS Integers, Sequences, FiniteSets, TLC

----------------------------------------------------------------------------
(* Extended rationals *)

AbsI(i) == IF i < 0 THEN -i ELSE i

SgnI(i) == IF i > 0 THEN 1 ELSE IF i < 0 THEN -1 ELSE 0

RECURSIVE GCD(_, _)
GCD(a, b) == IF b = 0 THEN a ELSE GCD(b, a % b)

Norm(n, d) ==
    IF d = 0 THEN <<SgnI(n), 0>>
    ELSE LET g == GCD(AbsI(n), AbsI(d))
             s == SgnI(d)
         IN  <<(s * n) \div g, (s * d) \div g>>

NaN == <<0, 0>>
PInf == <<1, 0>>
NInf == <<-1, 0>>
Q(n, d) == Norm(n, d)
Zero == <<0, 1>>
One == <<1, 1>>
Two == <<2, 1>>

IsNaN(x) == x = NaN
IsInf(x) == x[2] = 0 /\ x[1] # 0
IsFinite(x) == x[2] > 0

Neg(x) == <<-x[1], x[2]>>

Abs(x) == <<AbsI(x[1]), x[2]>>

\* x * y, cross-cancelled before multiplying so that no intermediate
\* product is larger than the result.
Mul(x, y) ==
    IF x[2] = 0 \/ y[2] = 0 THEN <<SgnI(x[1]) * SgnI(y[1]), 0>>
    ELSE LET g1 == GCD(AbsI(x[1]), y[2])
             g2 == GCD(AbsI(y[1]), x[2])
         IN  <<(x[1] \div g1) * (y[1] \div g2), (x[2] \div g2) * (y[2] \div g1)>>

\* 1/x; 1/0 is +inf (the sign of a zero is not modelled).
Inv(x) ==
    IF x[1] > 0 THEN <<x[2], x[1]>>
    ELSE IF x[1] < 0 THEN <<-x[2], -x[1]>>
    ELSE IF x[2] > 0 THEN PInf ELSE NaN

Div(x, y) == Mul(x, Inv(y))

Add(x, y) ==
    IF IsNaN(x) \/ IsNaN(y) THEN NaN
    ELSE IF IsInf(x) /\ IsInf(y) THEN (IF x = y THEN x ELSE NaN)
    ELSE IF IsInf(x) THEN x
    ELSE IF IsInf(y) THEN y
    ELSE LET g == GCD(x[2], y[2])
         IN  Norm(x[1] * (y[2] \div g) + y[1] * (x[2] \div g), (x[2] \div g) * y[2])

Sub(x, y) == Add(x, Neg(y))

\* x < y as numpy compares floats: false when either side is NaN.
Lt(x, y) ==
    /\ ~IsNaN(x)
    /\ ~IsNaN(y)
    /\ x # y
    /\ IF IsInf(x) THEN x = NInf
       ELSE IF IsInf(y) THEN y = PInf
       ELSE x[1] * y[2] < y[1] * x[2]

Gt(x, y) == Lt(y, x)

\* x != y as numpy compares floats: true when either side is NaN.
Ne(x, y) == IsNaN(x) \/ IsNaN(y) \/ x # y

\* numpy.sign
Sign(x) == IF IsNaN(x) THEN NaN ELSE <<SgnI(x[1]), 1>>

\* x * |x|: the signed square.  It is a monotone bijection of the extended
\* reals, so it keeps equality, order, zero, NaN and the infinities; it is
\* how the model carries a value that lies behind a square root.
SignedSq(x) == Mul(x, Abs(x))

----------------------------------------------------------------------------
(* pandas tables.  A DataFrame is [index, columns, v]: index is the       *)
(* sequence of row labels (dates, unique), columns the set of column      *)
(* labels, and v[i][c] the value of row i in column c.  A Series is       *)
(* [index, v] with v[i] the value of row i.                               *)

DataFrame(idx, cols, vals) == [index |-> idx, columns |-> cols, v |-> vals]

Series(idx, vals) == [index |-> idx, v |-> vals]

NRows(df) == Len(df.index)

\* DataFrame.shape
Shape(df) == <<Len(df.index), Cardinality(df.columns)>>

Loc(idx, d) == CHOOSE i \in 1..Len(idx) : idx[i] = d

HasLabel(idx, d) == \E i \in 1..Len(idx) : idx[i] = d

\* A sort_index() that leaves the rows as they are.
SortIndexNoSort(df) == df

\* DataFrame.sort_index(): the rows in ascending order of their label.
SortIndex(df) ==
    LET sorted == SortSeq(df.index, LAMBDA a, b : a < b)
    IN  DataFrame(sorted, df.columns,
                  [i \in 1..Len(sorted) |-> df.v[Loc(df.index, sorted[i])]])

\* DataFrame.reindex(new_index): rows looked up by label, NaN where the
\* label is absent.
Reindex(df, idx) ==
    DataFrame(idx, df.columns,
              [i \in 1..Len(idx) |->
                  IF HasLabel(df.index, idx[i])
                  THEN df.v[Loc(df.index, idx[i])]
                  ELSE [c \in df.columns |-> NaN]])

\* The last row at or above row i of column c whose value is not NaN (row i
\* itself when there is none).
FFillAt(df, i, c) ==
    LET above == {k \in 1..i : ~IsNaN(df.v[k][c])}
    IN  IF above = {} THEN df.v[i][c]
        ELSE df.v[CHOOSE k \in above : \A j \in above : j <= k][c]

\* DataFrame.ffill(): every NaN takes the last value above it that is not NaN.
FFill(df) ==
    DataFrame(df.index, df.columns,
              [i \in 1..NRows(df) |-> [c \in df.columns |-> FFillAt(df, i, c)]])

MapDF(F(_), df) ==
    DataFrame(df.index, df.columns,
              [i \in 1..NRows(df) |-> [c \in df.columns |-> F(df.v[i][c])]])

\* DataFrame.fillna(x)
FillNa(df, x) == MapDF(LAMBDA y : IF IsNaN(y) THEN x ELSE y, df)

\* DataFrame.shift(1)
Shift(df) ==
    DataFrame(df.index, df.columns,
              [i \in 1..NRows(df) |->
                  IF i = 1 THEN [c \in df.columns |-> NaN] ELSE df.v[i - 1]])

\* A binary operator between two DataFrames of the same index: pandas aligns
\* the columns, and a column that only one side has is NaN in the result.
ZipDF(F(_, _), a, b) ==
    DataFrame(a.index, a.columns \cup b.columns,
              [i \in 1..NRows(a) |->
                  [c \in a.columns \cup b.columns |->
                      IF c \in a.columns /\ c \in b.columns
                      THEN F(a.v[i][c], b.v[i][c]) ELSE NaN]])

\* DataFrame.diff()
Diff(df) == ZipDF(Sub, df, Shift(df))

\* DataFrame.pct_change()
PctChange(df) == MapDF(LAMBDA y : Sub(y, One), ZipDF(Div, df, Shift(df)))

\* The sum of s[a..b], by halves (the order of a sum of exact values does not
\* matter).
RECURSIVE SumRange(_, _, _)
SumRange(s, a, b) ==
    IF a > b THEN Zero
    ELSE IF a = b THEN s[a]
    ELSE Add(SumRange(s, a, (a + b) \div 2), SumRange(s, (a + b) \div 2 + 1, b))

SumSeq(s, n) == SumRange(s, 1, n)

\* The values of a sequence of floats that are not NaN (skipna).
NotNa(s) == SelectSeq(s, LAMBDA y : ~IsNaN(y))

\* sum with skipna: 0 when every value is NaN.
NanSum(s) == SumSeq(NotNa(s), Len(NotNa(s)))

\* mean with skipna: NaN when every value is NaN.
NanMean(s) == Div(NanSum(s), Q(Len(NotNa(s)), 1))

\* The sample variance (ddof = 1) with skipna: NaN with fewer than two values.
NanVar(s) ==
    LET xs == NotNa(s)
        n == Len(xs)
        m == NanMean(s)
        dev == [i \in 1..n |-> Mul(Sub(xs[i], m), Sub(xs[i], m))]
    IN  IF n < 2 THEN NaN ELSE Div(SumSeq(dev, n), Q(n - 1, 1))

\* min with skipna: NaN when every value is NaN.
NanMin(s) ==
    LET xs == NotNa(s)
    IN  IF Len(xs) = 0 THEN NaN
        ELSE CHOOSE m \in {xs[i] : i \in 1..Len(xs)} :
                 \A j \in 1..Len(xs) : ~Lt(xs[j], m)

\* The values of row i as a sequence (the order does not matter to a sum).
RowVals(df, i) ==
    LET cs == CHOOSE q \in [1..Cardinality(df.columns) -> df.columns] :
                  \A c \in df.columns : \E k \in 1..Cardinality(df.columns) : q[k] = c
    IN  [k \in 1..Cardinality(df.columns) |-> df.v[i][cs[k]]]

ColVals(df, c) == [i \in 1..NRows(df) |-> df.v[i][c]]

\* DataFrame.mean(axis=1)
RowMean(df) == Series(df.index, [i \in 1..NRows(df) |-> NanMean(RowVals(df, i))])

\* DataFrame.sum(axis=1)
RowSum(df) == Series(df.index, [i \in 1..NRows(df) |-> NanSum(RowVals(df, i))])

\* cumprod / cummax with skipna: a NaN row stays NaN and is skipped.  F is
\* associative, so the fold of s[a..b] is taken by halves.
RECURSIVE FoldRange(_, _, _, _)
FoldRange(F(_, _), s, a, b) ==
    IF a > b THEN NaN
    ELSE IF a = b THEN s[a]
    ELSE LET x == FoldRange(F, s, a, (a + b) \div 2)
             y == FoldRange(F, s, (a + b) \div 2 + 1, b)
         IN  IF IsNaN(x) THEN y ELSE IF IsNaN(y) THEN x ELSE F(x, y)

CumSeq(F(_, _), s) ==
    [i \in 1..Len(s) |-> IF IsNaN(s[i]) THEN NaN ELSE FoldRange(F, s, 1, i)]

Max2(x, y) == IF Lt(x, y) THEN y ELSE x

\* Series.cumprod()
CumProd(s) == Series(s.index, CumSeq(Mul, s.v))

\* Series.cummax()
CumMax(s) == Series(s.index, CumSeq(Max2, s.v))

MapS(F(_), s) == Series(s.index, [i \in 1..Len(s.v) |-> F(s.v[i])])

ZipS(F(_, _), a, b) == Series(a.index, [i \in 1..Len(a.v) |-> F(a.v[i], b.v[i])])

\* The number of rows of a boolean Series that are True.
CountS(P(_), s) == Cardinality({i \in 1..Len(s.v) : P(s.v[i])})

----------------------------------------------------------------------------
(* BacktestEngine (src/trading/backtest.py)                                *)

\* target_volatility = None
None == <<>>

\* BacktestEngine.__init__: the fields of an engine.
BacktestEngine(initial_capital, target_volatility, risk_free_rate, transaction_costs, slippage) ==
    [initial_capital |-> initial_capital,
     target_volatility |-> target_volatility,
     risk_free_rate |-> risk_free_rate,
     transaction_costs |-> transaction_costs,
     slippage |-> slippage]

\* The window of the trailing volatility, and the trading days of a year.
VolWindow == 21
TradingDays == 252

\* run, line 65: the precondition run checks.
ShapeMismatch(prices, signals) == Shape(prices) # Shape(signals)

\* run, line 69: signals.reindex(prices.index).ffill().fillna(0)
AlignSignals(prices, signals) == FillNa(FFill(Reindex(signals, prices.index)), Zero)

\* Positions sized from the signals of the same day (the shift left out).
RawPositionsNoLag(signals) == FillNa(signals, Zero)

\* run, line 73: signals.shift(1).fillna(0)
RawPositions(signals) == FillNa(Shift(signals), Zero)

\* run, line 76: prices.pct_change().fillna(0)
Returns(prices) == FillNa(PctChange(prices), Zero)

\* run, line 79: raw_positions.diff().abs()
PositionChanges(raw_positions) == MapDF(Abs, Diff(raw_positions))

\* run, line 80
Costs(self, position_changes) ==
    MapDF(LAMBDA y : Mul(Add(self.transaction_costs, self.slippage), y),
          position_changes)

\* run, lines 81-82: raw_positions * returns, less the costs.
StrategyReturns(raw_positions, returns, costs) ==
    ZipDF(Sub, ZipDF(Mul, raw_positions, returns), costs)

\* DataFrame.rolling(window=w).var(): the sample variance of the last w rows
\* of each column, NaN until w rows are there and while one of them is NaN.
RollingVar(df, w) ==
    DataFrame(df.index, df.columns,
              [i \in 1..NRows(df) |->
                  [c \in df.columns |->
                      IF i < w \/ \E k \in (i - w + 1)..i : IsNaN(df.v[k][c])
                      THEN NaN
                      ELSE NanVar([k \in 1..w |-> df.v[i - w + k][c]])]])

\* A clip with no upper bound.
ClipSqNoUpper(x) ==
    IF IsNaN(x) THEN NaN ELSE IF Lt(x, Zero) THEN Zero ELSE x

\* clip(0, 2) of a value carried as its signed square: clip to [0, 4].
ClipSq(x) ==
    IF IsNaN(x) THEN NaN
    ELSE IF Lt(x, Zero) THEN Zero
    ELSE IF Gt(x, Q(4, 1)) THEN Q(4, 1) ELSE x

\* run, lines 87-89: vol_scale, each value carried as its signed square.
\* rolling_vol = std * sqrt(252) is the root of var * 252 and is >= 0, so the
\* signed square of target_volatility / rolling_vol is
\* SignedSq(target_volatility) / (var * 252).
VolScaleSq(self, strategy_returns) ==
    MapDF(LAMBDA var :
              LET scale == Div(SignedSq(self.target_volatility),
                               Mul(var, Q(TradingDays, 1)))
                  clipped == ClipSq(scale)
              IN  IF IsNaN(clipped) THEN One ELSE clipped,
          RollingVar(strategy_returns, VolWindow))

\* run, lines 84-91: positions, each value carried as its signed square.
PositionsSq(self, raw_positions, strategy_returns) ==
    IF self.target_volatility = None
    THEN MapDF(SignedSq, raw_positions)
    ELSE ZipDF(Mul, MapDF(SignedSq, raw_positions),
               VolScaleSq(self, strategy_returns))

\* run, lines 111-112: the dates whose total position change is not 0.
TradeDates(position_changes) ==
    LET total == RowSum(position_changes)
    IN  SelectSeq(total.index, LAMBDA d : Ne(total.v[Loc(total.index, d)], Zero))

\* run, lines 65-91: what run has computed when it reaches the portfolio
\* metrics, or the error it raises.  strategy_returns is the table before the
\* volatility scaling and vol_scale_sq the scaling, so that every value is
\* exact; the metrics of lines 94-130 are operators of this record.
Run(self, prices_in, signals_in) ==
    IF ShapeMismatch(prices_in, signals_in)
    THEN [raised |-> "ValueError"]
    ELSE LET prices == SortIndex(prices_in)
             signals == AlignSignals(prices, signals_in)
             raw_positions == RawPositions(signals)
             returns == Returns(prices)
             position_changes == PositionChanges(raw_positions)
             costs == Costs(self, position_changes)
             strategy_returns == StrategyReturns(raw_positions, returns, costs)
         IN  [raised |-> "",
              self |-> self,
              prices |-> prices,
              signals |-> signals,
              raw_positions |-> raw_positions,
              returns |-> returns,
              position_changes |-> position_changes,
              costs |-> costs,
              strategy_returns |-> strategy_returns,
              vol_scale_sq |->
                  IF self.target_volatility = None
                  THEN MapDF(LAMBDA y : One, strategy_returns)
                  ELSE VolScaleSq(self, strategy_returns),
              positions_sq |-> PositionsSq(self, raw_positions, strategy_returns),
              trade_dates |-> TradeDates(position_changes)]

\* The engine after a call of run that loses half of its capital.
SelfAfterRunSpends(self) == [self EXCEPT !.initial_capital = Div(@, Two)]

\* run, lines 56-163: the engine after the call.  No statement of run assigns
\* an attribute of self.
SelfAfterRun(self) == self

\* The caller's price table sorted in place.
PricesAfterRunSorted(prices) == SortIndex(prices)

\* run, line 68: the caller's price table after the call.  sort_index()
\* returns a new table, bound to the local name.
PricesAfterRun(prices) == prices

\* run, line 69: the caller's signal table after the call.  reindex(), ffill()
\* and fillna() return new tables, bound to the local name.
SignalsAfterRun(signals) == signals

----------------------------------------------------------------------------
(* The portfolio metrics of run (lines 94-122), as operators of what Run   *)
(* returns.  They need vol_scale itself, the root of vol_scale_sq: they    *)
(* are defined on the results whose every vol_scale is rational (Exact).   *)

\* The greatest k in lo..hi with k * k <= n, by bisection.
RECURSIVE FloorSqrt(_, _, _)
FloorSqrt(n, lo, hi) ==
    IF lo = hi THEN lo
    ELSE LET mid == (lo + hi + 1) \div 2
         IN  IF mid * mid <= n THEN FloorSqrt(n, mid, hi) ELSE FloorSqrt(n, lo, mid - 1)

\* The integer part of the root of n >= 0 (the root of a 32-bit integer is
\* below 46341).
ISqrt(n) == FloorSqrt(n, 0, IF n < 46340 THEN n ELSE 46340)

IsSquare(n) == ISqrt(n) * ISqrt(n) = n

\* x is the square of a rational (x >= 0 and in lowest terms).
HasRoot(x) == IsFinite(x) /\ x[1] >= 0 /\ IsSquare(x[1]) /\ IsSquare(x[2])

Root(x) == <<ISqrt(x[1]), ISqrt(x[2])>>

Exact(r) ==
    \A i \in 1..NRows(r.vol_scale_sq) : \A c \in r.vol_scale_sq.columns :
        HasRoot(r.vol_scale_sq.v[i][c])

\* run, line 89: vol_scale
VolScale(r) == MapDF(Root, r.vol_scale_sq)

\* run, line 90: strategy_returns *= vol_scale
ScaledReturns(r) ==
    IF r.self.target_volatility = None THEN r.strategy_returns
    ELSE ZipDF(Mul, r.strategy_returns, VolScale(r))

\* run, lines 84 and 91: BacktestResult.positions
Positions(r) ==
    IF r.self.target_volatility = None THEN r.raw_positions
    ELSE ZipDF(Mul, r.raw_positions, VolScale(r))

\* run, line 94
DailyPortfolioReturn(r) == RowMean(ScaledReturns(r))

\* run, line 95: BacktestResult.equity
Equity(r) ==
    MapS(LAMBDA y : Mul(y, r.self.initial_capital),
         CumProd(MapS(LAMBDA y : Add(One, y), DailyPortfolioReturn(r))))

Last(s) == s.v[Len(s.v)]

\* run, line 98: BacktestResult.total_return
CumulativeReturn(r) == Sub(Div(Last(Equity(r)), r.self.initial_capital), One)

\* run, line 99: BacktestResult.annualized_return is base ** (252 / N) - 1.
\* The power is not a rational in general: the model keeps <<base, 252, N>>.
AnnualizedReturn(r) ==
    <<Add(One, CumulativeReturn(r)), TradingDays, Len(Equity(r).v)>>

\* Whether base ** (p / q) - 1 is NaN in numpy: the base is NaN, or the base is
\* negative and the exponent is not an integer.
PowIsNaN(t) == IsNaN(t[1]) \/ (Lt(t[1], Zero) /\ t[2] % t[3] # 0)

\* Whether base ** (p / q) - 1 is infinite: an infinite base with p / q > 0.
PowIsInf(t) == IsInf(t[1]) /\ ~PowIsNaN(t)

\* run, line 102
ExcessReturns(r) ==
    MapS(LAMBDA y : Sub(y, Div(r.self.risk_free_rate, Q(TradingDays, 1))),
         DailyPortfolioReturn(r))

\* run, line 103: mean / std * sqrt(252), carried as its signed square,
\* SignedSq(mean) / var * 252 (std >= 0 is the root of var).
SharpeRaw(r) ==
    Mul(Div(SignedSq(NanMean(ExcessReturns(r).v)), NanVar(ExcessReturns(r).v)),
        Q(TradingDays, 1))

\* run, line 104: BacktestResult.sharpe_ratio (as its signed square)
SharpeRatio(r) == IF ~IsNaN(SharpeRaw(r)) THEN SharpeRaw(r) ELSE Zero

\* run, lines 107-108, and diagnostics.py lines 24-25 and 36-37
Drawdowns(equity) ==
    ZipS(Div, ZipS(Sub, equity, CumMax(equity)), CumMax(equity))

\* The worst drawdown as a magnitude.
MaxDrawdownMagnitude(r) == Neg(NanMin(Drawdowns(Equity(r)).v))

\* run, line 109: BacktestResult.max_drawdown
MaxDrawdown(r) == NanMin(Drawdowns(Equity(r)).v)

\* run, lines 120-122: BacktestResult.win_rate
WinRate(r) ==
    LET winning_days == CountS(LAMBDA y : Gt(y, Zero), DailyPortfolioReturn(r))
        total_trade_days == CountS(LAMBDA y : Ne(y, Zero), DailyPortfolioReturn(r))
    IN  IF total_trade_days > 0 THEN Q(winning_days, total_trade_days) ELSE Zero

\* run, line 125: BacktestResult.per_asset_equity
PerAssetEquity(r) ==
    LET strategy_returns == ScaledReturns(r)
        growth == [c \in strategy_returns.columns |->
                      CumSeq(Mul, [i \in 1..NRows(strategy_returns) |->
                                      Add(One, strategy_returns.v[i][c])])]
        share == Div(r.self.initial_capital, Q(Cardinality(r.prices.columns), 1))
    IN  DataFrame(strategy_returns.index, strategy_returns.columns,
                  [i \in 1..NRows(strategy_returns) |->
                      [c \in strategy_returns.columns |-> Mul(growth[c][i], share)]])

\* run, line 126: BacktestResult.per_asset_cumulative_return
PerAssetCumulativeReturn(r) ==
    LET per_asset_equity == PerAssetEquity(r)
    IN  [c \in per_asset_equity.columns |->
            Sub(Div(per_asset_equity.v[NRows(per_asset_equity)][c],
                    per_asset_equity.v[1][c]), One)]

\* run, lines 113-117: BacktestResult.trades, one row per trade date.
Trades(r) ==
    [k \in 1..Len(r.trade_dates) |->
        LET d == r.trade_dates[k]
        IN  [date |-> d,
             total_position_change |->
                 RowSum(r.position_changes).v[Loc(r.position_changes.index, d)],
             equity |-> Equity(r).v[Loc(Equity(r).index, d)]]]

----------------------------------------------------------------------------
(* DiagnosticEngine (src/trading/diagnostics.py)                           *)

\* Series.idxmin() / idxmax(): the row of the first smallest / largest value
\* that is not NaN.
IdxMin(vals) ==
    CHOOSE i \in 1..Len(vals) :
        /\ ~IsNaN(vals[i])
        /\ \A j \in 1..Len(vals) : ~Lt(vals[j], vals[i])
        /\ \A j \in 1..(i - 1) : IsNaN(vals[j]) \/ Lt(vals[i], vals[j])

IdxMax(vals) ==
    CHOOSE i \in 1..Len(vals) :
        /\ ~IsNaN(vals[i])
        /\ \A j \in 1..Len(vals) : ~Gt(vals[j], vals[i])
        /\ \A j \in 1..(i - 1) : IsNaN(vals[j]) \/ Gt(vals[i], vals[j])

AllNaN(vals) == \A i \in 1..Len(vals) : IsNaN(vals[i])

\* max_drawdown_duration on the equity curve of a result, line 26: idxmin
\* of a Series that is all NaN has no row to return; it raises (pandas 3) or
\* yields NaN, which line 27 cannot slice by.
DurationRaises(equity) == AllNaN(Drawdowns(equity).v)

\* max_drawdown_duration, lines 23-28, on the equity curve of a result.
Duration(equity) ==
    LET trough == IdxMin(Drawdowns(equity).v)
        peak == IdxMax(SubSeq(equity.v, 1, trough))
    IN  trough - peak

MaxDrawdownDurationRaises(r) == DurationRaises(Equity(r))

MaxDrawdownDuration(r) == Duration(Equity(r))

\* The rows with a drawdown of zero or less.
InDrawdownInclusive(drawdowns) ==
    [i \in 1..Len(drawdowns) |-> ~Gt(drawdowns[i], Zero)]

\* longest_drawdown_run_days, line 38: drawdowns < 0
InDrawdown(drawdowns) ==
    [i \in 1..Len(drawdowns) |-> Lt(drawdowns[i], Zero)]

\* longest_drawdown_run_days, lines 35-41, on the equity curve of a result:
\* a new period starts on every row that differs from the row before it
\* (the first row differs from the NaN that shift() puts before it), and
\* the rows in drawdown are counted per period.
LongestRun(equity) ==
    LET in_drawdown == InDrawdown(Drawdowns(equity).v)
        n == Len(in_drawdown)
        starts == {i \in 1..n : i = 1 \/ in_drawdown[i] # in_drawdown[i - 1]}
        period_id == [i \in 1..n |-> Cardinality({j \in starts : j <= i})]
        periods == {period_id[i] : i \in 1..n}
        days_per_run ==
            [p \in periods |->
                Cardinality({i \in 1..n : period_id[i] = p /\ in_drawdown[i]})]
    IN  IF periods = {} THEN 0
        ELSE days_per_run[CHOOSE p \in periods :
                              \A q \in periods : days_per_run[q] <= days_per_run[p]]

LongestDrawdownRunDays(r) == LongestRun(Equity(r))

\* turnover, lines 48-51
Turnover(r, annualize) ==
    LET daily_turnover == RowSum(MapDF(Abs, Diff(Positions(r))))
        mean_daily == NanMean(daily_turnover.v)
    IN  IF annualize THEN Mul(mean_daily, Q(TradingDays, 1)) ELSE mean_daily

\* report, lines 57-71
Report(r) ==
    IF MaxDrawdownDurationRaises(r) THEN [raised |-> "ValueError"]
    ELSE [raised |-> "",
          total_return |-> CumulativeReturn(r),
          annualized_return |-> AnnualizedReturn(r),
          sharpe_ratio |-> SharpeRatio(r),
          max_drawdown |-> MaxDrawdown(r),
          max_drawdown_duration_days |-> MaxDrawdownDuration(r),
          longest_drawdown_run_days |-> LongestDrawdownRunDays(r),
          win_rate |-> WinRate(r),
          turnover_annualized |-> Turnover(r, TRUE),
          num_trades |-> Len(r.trade_dates),
          num_days |-> Len(Equity(r).v),
          start_date |-> r.prices.index[1],
          end_date |-> r.prices.index[NRows(r.prices)]]

\* The BacktestResult after report and the methods it calls: they read
\* equity and positions into new Series and assign no field.
ResultAfterReport(r) == r

----------------------------------------------------------------------------
(* Signal generators (src/analytics/signals.py).  generate returns a       *)
(* Series of integers, [raised |-> "", v |-> <<..>>], or raises.           *)

\* f'sma_{window}'
SmaName(window) ==
    CASE window = 10 -> "sma_10"
      [] window = 21 -> "sma_21"
      [] window = 50 -> "sma_50"
      [] OTHER -> "sma_200"

MomentumSignal(window) == [kind |-> "Momentum", window |-> window]

RSISignal(oversold, overbought) ==
    [kind |-> "RSI", oversold |-> oversold, overbought |-> overbought]

MACDSignal == [kind |-> "MACD"]

\* The value itself, its sign not taken.
SignIntNoSign(x) == IF IsFinite(x) THEN x[1] ELSE 0

\* numpy.sign(x), then .replace(0, nan).fillna(0).astype(int)
SignInt(x) == IF IsNaN(x) THEN 0 ELSE SgnI(x[1])

\* MomentumSignal.generate, line 49: the column the SMA is read from.  The
\* name tested is the literal 'sma_{self.window}' (the string is no f-string).
SmaCol(self, df) ==
    IF "sma_{self.window}" \in df.columns THEN SmaName(self.window) ELSE "sma_21"

\* MomentumSignal.generate, lines 44-55
MomentumGenerate(self, df) ==
    IF "sma_21" \notin df.columns \/ "close" \notin df.columns
    THEN [raised |-> "ValueError"]
    ELSE IF SmaCol(self, df) \notin df.columns
    THEN [raised |-> "KeyError"]
    ELSE [raised |-> "",
          v |-> [i \in 1..NRows(df) |->
                    SignInt(Sub(df.v[i]["close"], df.v[i][SmaCol(self, df)]))]]

\* Thresholds that count a value equal to them.
RSIValueInclusive(self, rsi) ==
    IF ~IsNaN(rsi) /\ ~Lt(rsi, self.overbought) THEN -1
    ELSE IF ~IsNaN(rsi) /\ ~Gt(rsi, self.oversold) THEN 1
    ELSE 0

\* RSISignal.generate, lines 75-77: 0, then 1 where rsi < oversold, then -1
\* where rsi > overbought.
RSIValue(self, rsi) ==
    IF Gt(rsi, self.overbought) THEN -1
    ELSE IF Lt(rsi, self.oversold) THEN 1
    ELSE 0

\* RSISignal.generate, lines 68-79
RSIGenerate(self, df) ==
    IF "rsi_14" \notin df.columns
    THEN [raised |-> "ValueError"]
    ELSE [raised |-> "",
          v |-> [i \in 1..NRows(df) |-> RSIValue(self, df.v[i]["rsi_14"])]]

\* MACDSignal.generate, lines 88-96
MACDGenerate(self, df) ==
    IF "macd_histogram" \notin df.columns
    THEN [raised |-> "ValueError"]
    ELSE [raised |-> "",
          v |-> [i \in 1..NRows(df) |-> SignInt(df.v[i]["macd_histogram"])]]

\* SignalBase.generate, by the class of the generator.
Generate(self, df) ==
    CASE self.kind = "Momentum" -> MomentumGenerate(self, df)
      [] self.kind = "RSI" -> RSIGenerate(self, df)
      [] OTHER -> MACDGenerate(self, df)

\* SignalCombiner.__init__, lines 107-108.  signals is the dict in insertion
\* order, a sequence of [name, gen]; weights is a function of names, and an
\* empty or absent one gives every generator the weight 1.
SignalCombiner(signals, weights) ==
    [kind |-> "Combiner",
     signals |-> signals,
     weights |-> IF DOMAIN weights = {}
                 THEN [n \in {signals[k].name : k \in 1..Len(signals)} |-> One]
                 ELSE weights]

\* A generator with no entry in the weights counts for nothing.
WeightDefaultZero(self, name) ==
    IF name \in DOMAIN self.weights THEN self.weights[name] ELSE Zero

\* SignalCombiner.generate, lines 116 and 120: self.weights.get(name, 1.0)
Weight(self, name) ==
    IF name \in DOMAIN self.weights THEN self.weights[name] ELSE One

\* The threshold of SignalCombiner.generate, lines 124-125: 0.33
Threshold == Q(33, 100)

\* SignalCombiner.generate, lines 123-125: 0, then 1 where combined > 0.33,
\* then -1 where combined < -0.33.
Discrete(combined) ==
    IF Lt(combined, Neg(Threshold)) THEN -1
    ELSE IF Gt(combined, Threshold) THEN 1
    ELSE 0

\* SignalCombiner.generate, lines 110-127.  An error of a generator leaves the
\* loop at that generator; with no generator the mask of line 124 is empty and
\* cannot be aligned with a table that has rows.
CombinerGenerate(self, df) ==
    LET n == Len(self.signals)
        sig == [k \in 1..n |-> Generate(self.signals[k].gen, df)]
        weight == [k \in 1..n |-> Weight(self, self.signals[k].name)]
        failed == {k \in 1..n : sig[k].raised # ""}
        total_weight == SumSeq(weight, n)
        combined(i) == Div(SumSeq([k \in 1..n |-> Mul(Q(sig[k].v[i], 1), weight[k])], n),
                           total_weight)
    IN  IF failed # {}
        THEN [raised |-> sig[CHOOSE k \in failed : \A m \in failed : k <= m].raised]
        ELSE IF n = 0 /\ NRows(df) > 0
        THEN [raised |-> "IndexingError"]
        ELSE [raised |-> "", v |-> [i \in 1..NRows(df) |-> Discrete(combined(i))]]

\* generate of a generator or of a combiner.
\* The caller's feature table after generate: every generator builds a new
\* Series from the columns it reads.
DfAfterGenerate(df) == df

GenerateAny(self, df) ==
    IF self.kind = "Combiner" THEN CombinerGenerate(self, df) ELSE Generate(self, df)


----------------------------------------------------------------------------
(* The feature engine (analytics/features.py), at the level of the columns *)
(* of its tables: which columns compute_all adds to a copy of the caller's *)
(* table, and which names get_feature_names lists.                         *)

\* _add_returns assigns these columns of its table.
AddReturns(columns) ==
    columns \cup {"return_1d", "return_5d", "return_21d", "log_return_1d",
                  "cumulative_return"}

\* _add_volatility.
AddVolatility(columns) ==
    columns \cup {"volatility_21d", "volatility_63d", "realized_vol_5d"}

\* _add_moving_averages.
AddMovingAverages(columns) ==
    columns \cup {"sma_10", "sma_21", "sma_50", "sma_200", "ema_12", "ema_26",
                  "price_to_sma_21", "price_to_sma_50", "price_to_sma_200",
                  "sma_10_above_50", "sma_50_above_200"}

\* _add_technical_indicators.
AddTechnicalIndicators(columns) ==
    columns \cup {"rsi_14", "macd", "macd_signal", "macd_histogram", "bb_upper",
                  "bb_lower", "bb_position", "atr_14", "momentum_10", "momentum_21"}

\* Whether row i of the feature column c is NaN, for a table df whose
\* prices are positive and have no gaps.  pct_change(k) and shift(k) are NaN
\* on the first k rows; rolling(w) is NaN until the window holds w values
\* (the log return has none on the first row); ewm(adjust=False) has a value
\* from its first observation on; a comparison yields False on NaN, and
\* astype(int) and where(.., 0) make a number of it.
FeatureIsNa(df, c, i) ==
    CASE c \in {"return_1d", "log_return_1d"} -> i <= 1
      [] c = "return_5d" -> i <= 5
      [] c = "return_21d" -> i <= 21
      [] c = "cumulative_return" -> FALSE
      [] c = "volatility_21d" -> i <= 21
      [] c = "volatility_63d" -> i <= 63
      [] c = "realized_vol_5d" -> i <= 5
      [] c \in {"sma_10"} -> i < 10
      [] c \in {"sma_21", "price_to_sma_21"} -> i < 21
      [] c \in {"sma_50", "price_to_sma_50"} -> i < 50
      [] c \in {"sma_200", "price_to_sma_200"} -> i < 200
      [] c \in {"ema_12", "ema_26"} -> FALSE
      [] c \in {"sma_10_above_50", "sma_50_above_200"} -> FALSE
      [] c = "rsi_14" -> FALSE
      [] c \in {"macd", "macd_signal", "macd_histogram"} -> FALSE
      [] c \in {"bb_upper", "bb_lower"} -> i < 20
      [] c = "bb_position" ->
            \/ i < 20
            \/ \A j \in (i - 19)..i : df.v[j]["close"] = df.v[i]["close"]
      [] c = "atr_14" -> FALSE
      [] c = "momentum_10" -> i <= 10
      [] c = "momentum_21" -> i <= 21

\* compute_all(df, include_ta): raises without a close column; otherwise a
\* copy of df (its cells are in 'copied') with the feature columns added;
\* isna is the table result.isna().
ComputeAll(df, ta) ==
    IF "close" \notin df.columns
    THEN [raised |-> "ValueError"]
    ELSE LET base == AddMovingAverages(AddVolatility(AddReturns({})))
             added == IF ta THEN AddTechnicalIndicators(base) ELSE base
         IN  [raised  |-> "",
              index   |-> df.index,
              columns |-> df.columns \cup added,
              copied  |-> df.v,
              isna    |-> [i \in 1..NRows(df) |->
                              [c \in df.columns \cup added |->
                                  IF c \in added THEN FeatureIsNa(df, c, i)
                                  ELSE IsNaN(df.v[i][c])]]]

\* The caller's table after compute_all: the steps assign the columns of
\* result = df.copy(), never of df.
DfAfterComputeAll(df) == df

\* get_feature_names(): the list it builds; it takes no argument.
GetFeatureNames ==
    <<"return_1d", "return_5d", "return_21d", "log_return_1d", "cumulative_return",
      "volatility_21d", "volatility_63d", "realized_vol_5d",
      "sma_10", "sma_21", "sma_50", "sma_200",
      "ema_12", "ema_26",
      "price_to_sma_21", "price_to_sma_50", "price_to_sma_200",
      "sma_10_above_50", "sma_50_above_200",
      "rsi_14", "macd", "macd_signal", "macd_histogram",
      "bb_upper", "bb_lower", "bb_position",
      "atr_14", "momentum_10", "momentum_21">>


----------------------------------------------------------------------------
(* The ETL pipeline (data/etl/pipeline.py) over the tables of              *)
(* data/models.py.  A row of prices_daily is <<symbol, date>>: an          *)
(* instrument has one symbol, and (instrument_id, date) is unique.  A      *)
(* source is the set of dates it has prices for, per symbol.               *)

\* The elements of a set of dates in ascending order.
RECURSIVE Ascend(_)
Ascend(dates) ==
    IF dates = {} THEN <<>>
    ELSE LET first == CHOOSE d \in dates : \A e \in dates : d <= e
         IN  <<first>> \o Ascend(dates \ {first})

\* source.fetch_prices: the dates of the range the source has, in date
\* order; DataSource_error when it has none.
FetchPrices(source, symbol, start_date, end_date) ==
    LET dates == {d \in source[symbol] : start_date <= d /\ d <= end_date}
    IN  IF dates = {} THEN [raised |-> "DataSource_error"]
        ELSE [raised |-> "", dates |-> Ascend(dates)]

\* The row loop of _process_symbol inside one session: pending holds the
\* rows flushed in the open transaction.  A flush that violates
\* uq_instrument_date raises, and session.rollback() ends the transaction
\* with every row flushed in it.
RECURSIVE LoadRows(_, _, _, _, _)
LoadRows(symbol, dates, skip_existing, table, session) ==
    IF dates = <<>> THEN session
    ELSE LET row == <<symbol, Head(dates)>>
             existing == row \in table \cup session.pending
         IN  IF skip_existing /\ existing
             THEN LoadRows(symbol, Tail(dates), skip_existing, table,
                           [session EXCEPT !.skipped = @ + 1])
             ELSE IF existing
             THEN LoadRows(symbol, Tail(dates), skip_existing, table,
                           [session EXCEPT !.pending = {}, !.skipped = @ + 1])
             ELSE LoadRows(symbol, Tail(dates), skip_existing, table,
                           [session EXCEPT !.pending = @ \cup {row},
                                           !.inserted = @ + 1])

\* _ensure_instrument: the instruments table afterwards.
EnsureInstrument(instruments, symbol) == instruments \cup {symbol}

\* _process_symbol on the database db: what it returns or raises, and the
\* tables afterwards (get_session commits the open transaction on exit).
ProcessSymbol(source, db, symbol, start_date, end_date, skip_existing) ==
    LET df == FetchPrices(source, symbol, start_date, end_date)
    IN  IF df.raised # ""
        THEN [raised |-> df.raised, inserted |-> 0, skipped |-> 0, db |-> db]
        ELSE LET session == LoadRows(symbol, df.dates, skip_existing, db.prices_daily,
                                     [pending |-> {}, inserted |-> 0, skipped |-> 0])
             IN  [raised   |-> "",
                  inserted |-> session.inserted,
                  skipped  |-> session.skipped,
                  db       |-> [db EXCEPT
                                  !.instruments = EnsureInstrument(@, symbol),
                                  !.prices_daily = @ \cup session.pending]]

\* _log_symbol: a row of data_load_symbols for the job; the commit raises
\* when the job has a row for the symbol (uq_load_log_symbol).
LogSymbolRaises(db, symbol) ==
    \E k \in 1..Len(db.load_symbols) : db.load_symbols[k].symbol = symbol

LogSymbol(db, symbol, status, records, skipped) ==
    [db EXCEPT !.load_symbols =
        Append(@, [symbol |-> symbol, status |-> status,
                   records_loaded |-> records, records_skipped |-> skipped])]

\* _start_job_log: a new row of data_load_log; load_symbols holds the rows
\* of data_load_symbols of the newest job, in the order of their ids.
StartJobLog(db) ==
    [db EXCEPT !.load_log = [id |-> db.load_log.id + 1, status |-> "RUNNING",
                             records_processed |-> 0, completed_at |-> "None"],
               !.load_symbols = <<>>]

\* A job log that is left as it was started.
CompleteJobLogNever(db, status, records) == db

\* _complete_job_log
CompleteJobLog(db, status, records) ==
    [db EXCEPT !.load_log = [@ EXCEPT !.status = status,
                                      !.records_processed = records,
                                      !.completed_at = "now"]]

\* The loop of run over the symbols: the stats and the database after it,
\* or the exception that left it.
RECURSIVE ProcessSymbols(_, _, _, _, _, _, _)
ProcessSymbols(source, symbols, start_date, end_date, skip_existing, stats, db) ==
    IF symbols = <<>> THEN [raised |-> "", stats |-> stats, db |-> db]
    ELSE LET symbol == Head(symbols)
             r == ProcessSymbol(source, db, symbol, start_date, end_date, skip_existing)
         IN  IF LogSymbolRaises(r.db, symbol)
             THEN [raised |-> "IntegrityError", stats |-> stats, db |-> r.db]
             ELSE IF r.raised # ""
             THEN ProcessSymbols(source, Tail(symbols), start_date, end_date,
                      skip_existing,
                      [stats EXCEPT !.symbols_failed = @ + 1],
                      LogSymbol(r.db, symbol, "FAILED", 0, 0))
             ELSE ProcessSymbols(source, Tail(symbols), start_date, end_date,
                      skip_existing,
                      [stats EXCEPT !.records_inserted = @ + r.inserted,
                                    !.records_skipped = @ + r.skipped,
                                    !.symbols_processed = @ + 1],
                      LogSymbol(r.db, symbol, "SUCCESS", r.inserted, r.skipped))

\* run: what it returns or raises, and the database afterwards.
PipelineRun(source, db, symbols, start_date, end_date, skip_existing) ==
    LET stats == [symbols_processed |-> 0, symbols_failed |-> 0,
                  records_inserted |-> 0, records_skipped |-> 0,
                  status |-> "RUNNING"]
        r == ProcessSymbols(source, symbols, start_date, end_date, skip_existing,
                            stats, StartJobLog(db))
    IN  IF r.raised # ""
        THEN [raised |-> r.raised, db |-> CompleteJobLog(r.db, "FAILED", 0)]
        ELSE [raised |-> "", stats |-> r.stats,
              db |-> CompleteJobLog(r.db, "SUCCESS", r.stats.records_inserted)]


----------------------------------------------------------------------------
(* VectorizedBacktestEngine (src/backtest/engine.py)                       *)

\* __init__, lines 4-14: the fields it sets.
VectorizedBacktestEngine(market_data, instruments, vol_window, target_gross_exposure) ==
    [market_data |-> market_data, instruments |-> instruments,
     vol_window |-> vol_window, target_gross_exposure |-> target_gross_exposure]

\* The module as Python compiles it.  Each assert of lines 28-33 is written
\* 'assert condition "message"', without the comma between the two: the
\* file is not valid Python, and importing it raises SyntaxError.
ModuleRaises == "SyntaxError"

\* _estimate_volatility, lines 44-45, as the variance that the volatility
\* is the root of.
EstimateVariance(self, returns) == RollingVar(returns, self.vol_window)

\* _build_positions(signals, vol), lines 47-58.
BuildPositions(self, signals, vol) ==
    LET scaled == ZipDF(Div, signals, vol)
        gross == RowSum(MapDF(Abs, scaled))
        positions ==
            DataFrame(scaled.index, scaled.columns,
                      [i \in 1..NRows(scaled) |->
                          [c \in scaled.columns |->
                              Mul(scaled.v[i][c],
                                  Div(self.target_gross_exposure, gross.v[i]))]])
    IN  FillNa(positions, Zero)

\* run(signals): nothing of the module runs when it does not compile.  Past
\* the asserts, line 25 calls _build_positions(signals) without the vol that
\* lines 47-51 require, which raises TypeError before a position is built.
VectorizedRun(self, signals) ==
    IF ModuleRaises # "" THEN [raised |-> ModuleRaises]
    ELSE [raised |-> "TypeError"]

----------------------------------------------------------------------------
(* The state: one engine, the caller's two tables and what the calls have *)
(* returned; one signal generator, a feature table and what generate     *)
(* returned; the price table given to the feature engine and what         *)
(* compute_all returned; the data source of an ETL pipeline, its database *)
(* and what its last run returned; an equity curve and what the           *)
(* diagnostics measured on it.                                             *)

VARIABLES
    engine,     \* the BacktestEngine: the fields __init__ sets
    prices,     \* the caller's price table
    signals,    \* the caller's signal table
    result,     \* what the last run returned or raised; NoResult before
    changed,    \* the date whose signal the caller changed before running
                \* again; 0 while the caller has changed nothing
    report,     \* what DiagnosticEngine(result).report() returned or raised
    generator,  \* the signal generator: the fields its __init__ sets
    features,   \* the caller's feature table
    signal,     \* what generator.generate(features) returned or raised
    ohlcv,      \* the caller's OHLCV table
    include_ta, \* the include_ta argument of compute_all
    computed,   \* what FeatureEngine().compute_all(ohlcv, include_ta) returned
                \* or raised
    source,     \* the pipeline's data source: the dates it has, per symbol
    db,         \* the database: prices_daily, instruments, the newest row of
                \* data_load_log and the rows of data_load_symbols of its job
    call,       \* the arguments of the pipeline's last run
    stats,      \* what the last run returned or raised
    curve,      \* the equity of the BacktestResult a DiagnosticEngine holds
    measured    \* what max_drawdown_duration() and
                \* longest_drawdown_run_days() returned or raised on it

btVars == <<engine, prices, signals, result, changed, report>>

sgVars == <<generator, features, signal>>

feVars == <<ohlcv, include_ta, computed>>

etlVars == <<source, db, call, stats>>

dgVars == <<curve, measured>>

vars == <<btVars, sgVars, feVars, etlVars, dgVars>>

NoResult == [raised |-> "none"]

\* The database after init_database(), before any run.
EmptyDb ==
    [prices_daily |-> {}, instruments |-> {},
     load_log |-> [id |-> 0, status |-> "none", records_processed |-> 0,
                   completed_at |-> "None"],
     load_symbols |-> <<>>]

NoCall == [symbols |-> <<>>, start_date |-> 0, end_date |-> 0, skip_existing |-> FALSE]

\* No pipeline is in use.
PipelineIdle ==
    /\ source = <<>>
    /\ db = EmptyDb
    /\ call = NoCall
    /\ stats = NoResult

NotMeasured == [duration |-> NoResult, longest |-> NoResult]

\* No diagnostics of a curve are in use.
DiagnosticsIdle ==
    /\ curve = Series(<<>>, <<>>)
    /\ measured = NotMeasured

\* No feature engine is in use.
FeaturesIdle ==
    /\ ohlcv = DataFrame(<<>>, {}, <<>>)
    /\ include_ta = FALSE
    /\ computed = NoResult

\* Bounds of the inputs: the rows of a short table, the rows a long table has
\* beyond the volatility window, and how many of the last dates of a table
\* the caller may change.
MaxDays == 3
ExtraDays == 1
ChangeDays == 2

InitialCapital == 100000

\* The engines: the constructor's arguments.  63/2 is a risk-free rate whose
\* daily value, rate / 252, is 1/8.
Rates == {Zero, Q(1, 16)}
RiskFreeRates == {Zero, Q(63, 2)}

\* <<transaction_costs, slippage>>
CostRates == {<<Zero, Zero>>, <<Q(1, 16), Zero>>, <<Q(1, 16), Q(1, 16)>>}

Engines ==
    {BacktestEngine(Q(InitialCapital, 1), None, Zero, cs[1], cs[2]) : cs \in CostRates}
    \cup {BacktestEngine(Q(InitialCapital, 1), None, rf, Q(1, 16), Q(1, 16)) :
              rf \in RiskFreeRates}

VolEngines ==
    {BacktestEngine(Q(InitialCapital, 1), tv, Zero, tc, Zero) :
        tv \in {Q(1, 10), Q(100, 1)}, tc \in Rates}
    \cup {BacktestEngine(Q(InitialCapital, 1), tv, Zero, Zero, Zero) :
              tv \in {Zero, Q(-1, 10)}}

FewEngines ==
    {BacktestEngine(Q(InitialCapital, 1), tv, Q(63, 2), Q(1, 16), Q(1, 16)) :
        tv \in {None, Q(1, 10)}}

SignalValues == {Q(-1, 1), Zero, One}

Days(n) == [i \in 1..n |-> i]

\* Price paths: flat, 1 2 1 2 .., 2 1 2 1 .., 1 1 2 2 1 1 ..
PricePaths == 1..4

PriceAt(k, i) ==
    CASE k = 1 -> One
      [] k = 2 -> Q(1 + ((i + 1) % 2), 1)
      [] k = 3 -> Q(1 + (i % 2), 1)
      [] OTHER -> Q(1 + (((i - 1) \div 2) % 2), 1)

\* Signal paths: all 0, all +1, +1 -1 +1 .., 0 +1 +1 -1 0 +1 +1 -1 ..,
\* and two paths with days that carry no signal (NaN).
SignalPaths == 1..6

SignalAt(k, i) ==
    CASE k = 1 -> Zero
      [] k = 2 -> One
      [] k = 3 -> Q(1 - 2 * ((i + 1) % 2), 1)
      [] k = 4 -> <<Zero, One, One, Q(-1, 1)>>[1 + ((i - 1) % 4)]
      [] k = 5 -> IF i % 2 = 1 THEN Q(-1, 1) ELSE NaN
      [] OTHER -> IF i = 1 THEN NaN ELSE One

Column(idx, c, F(_)) == DataFrame(idx, {c}, [i \in 1..Len(idx) |-> [x \in {c} |-> F(i)]])

\* pandas.concat([a, b], axis=1) of two tables of the same index.
Concat(a, b) ==
    DataFrame(a.index, a.columns \cup b.columns,
              [i \in 1..NRows(a) |->
                  [c \in a.columns \cup b.columns |->
                      IF c \in a.columns THEN a.v[i][c] ELSE b.v[i][c]]])

PricePath(idx, c, k) == Column(idx, c, LAMBDA i : PriceAt(k, i))

SignalPath(idx, c, k) == Column(idx, c, LAMBDA i : SignalAt(k, i))

AnySignals(idx, c) ==
    {DataFrame(idx, {c}, v) : v \in [1..Len(idx) -> [{c} -> SignalValues]]}

\* The rows of a table in another order.
PermuteRows(df, perm) ==
    DataFrame([i \in 1..NRows(df) |-> df.index[perm[i]]], df.columns,
              [i \in 1..NRows(df) |-> df.v[perm[i]]])

Reverse(n) == [i \in 1..n |-> n + 1 - i]

Rotate(n) == [i \in 1..n |-> (i % n) + 1]

\* One asset, both tables on the dates 1..n, every signal table.
OneAssetInputs ==
    UNION {{<<PricePath(Days(n), "A", k), s>> :
               k \in PricePaths, s \in AnySignals(Days(n), "A")} :
           n \in 1..MaxDays}

\* One asset, signal paths that hold NaN.
NaNSignalInputs ==
    {<<PricePath(Days(n), "A", k), SignalPath(Days(n), "A", j)>> :
        n \in 1..MaxDays, k \in PricePaths, j \in {5, 6}}

\* Two assets, the second at a flat price.
TwoAssetInputs ==
    {<<Concat(PricePath(Days(n), "A", k), PricePath(Days(n), "B", 1)),
       Concat(SignalPath(Days(n), "A", ja), SignalPath(Days(n), "B", j))>> :
        n \in 2..MaxDays, k \in {2, 4}, ja \in 1..4, j \in {1, 2}}

\* The rows of the price table, or of both tables, not in date order.
PermutedInputs ==
    UNION {{<<PermuteRows(PricePath(Days(n), "A", k), perm),
              PermuteRows(SignalPath(Days(n), "A", j), sperm)>> :
               k \in PricePaths, j \in 2..5,
               perm \in {Reverse(n), Rotate(n)},
               sperm \in {Days(n), Reverse(n)}} :
           n \in 2..MaxDays}

Shifted(n) == [i \in 1..n |-> i + 1]

\* Tables that do not share their dates, their columns or their shape.
MismatchedInputs ==
    UNION {{<<PricePath(Days(n), "A", k), SignalPath(Shifted(n), "A", j)>> :
               k \in {2, 3}, j \in 2..4}
           \cup {<<PricePath(Days(n), "A", k), SignalPath(Days(n), "B", j)>> :
                    k \in {2, 3}, j \in 2..4}
           \cup {<<PricePath(Days(n), "A", k), SignalPath(Days(n + 1), "A", j)>> :
                    k \in {2, 3}, j \in 2..4}
           \cup {<<PricePath(Days(n), "A", k),
                   Concat(SignalPath(Days(n), "A", j), SignalPath(Days(n), "B", j))>> :
                    k \in {2, 3}, j \in 2..4} :
           n \in 1..MaxDays}

\* Scenario A of the specification: two assets over five days, one at the
\* prices 100 101 102 101 103 and one flat at 50, the signal +1 throughout.
ScenarioAPrices ==
    Concat(Column(Days(5), "A", LAMBDA i : Q(<<100, 101, 102, 101, 103>>[i], 1)),
           Column(Days(5), "B", LAMBDA i : Q(50, 1)))

ScenarioASignals == Concat(SignalPath(Days(5), "A", 2), SignalPath(Days(5), "B", 2))

ScenarioAInputs == {<<ScenarioAPrices, ScenarioASignals>>}

\* One asset over more dates than the volatility window.
LongInputs ==
    {<<PricePath(Days(VolWindow + e), "A", k), SignalPath(Days(VolWindow + e), "A", j)>> :
        e \in 1..ExtraDays, k \in PricePaths, j \in 1..4}

InitWith(Inputs, Es) ==
    /\ engine \in Es
    /\ \E in \in Inputs : prices = in[1] /\ signals = in[2]
    /\ result = NoResult
    /\ changed = 0
    /\ report = NoResult

\* No engine is in use.
BacktestIdle ==
    /\ engine = [initial_capital |-> None]
    /\ prices = DataFrame(<<>>, {}, <<>>)
    /\ signals = DataFrame(<<>>, {}, <<>>)
    /\ result = NoResult
    /\ changed = 0
    /\ report = NoResult

\* No generator is in use.
SignalsIdle ==
    /\ generator = [kind |-> "none"]
    /\ features = DataFrame(<<>>, {}, <<>>)
    /\ signal = NoResult

Init ==
    /\ SignalsIdle
    /\ FeaturesIdle
    /\ PipelineIdle
    /\ DiagnosticsIdle
    /\ \/ InitWith(OneAssetInputs, Engines)
       \/ InitWith(NaNSignalInputs \cup TwoAssetInputs \cup PermutedInputs
                       \cup MismatchedInputs, FewEngines)
       \/ InitWith(ScenarioAInputs, Engines \cup FewEngines)
       \/ InitWith(LongInputs, VolEngines)

\* The caller runs the backtest on its tables.
RunBacktest ==
    /\ ~BacktestIdle
    /\ result = NoResult
    /\ result' = Run(engine, prices, signals)
    /\ engine' = SelfAfterRun(engine)
    /\ prices' = PricesAfterRun(prices)
    /\ signals' = SignalsAfterRun(signals)
    /\ UNCHANGED <<changed, report, sgVars, feVars, etlVars, dgVars>>

SetCell(df, d, c, x) ==
    DataFrame(df.index, df.columns,
              [df.v EXCEPT ![Loc(df.index, d)] = [@ EXCEPT ![c] = x]])

\* The caller changes the signal of one date and one asset and runs again.
RunPerturbed ==
    /\ result # NoResult
    /\ result.raised = ""
    /\ changed = 0
    /\ \E i \in 1..NRows(signals), c \in signals.columns, x \in SignalValues :
          /\ i > NRows(signals) - ChangeDays
          /\ x # signals.v[i][c]
          /\ result' = Run(engine, prices, SetCell(signals, signals.index[i], c, x))
          /\ signals' = SignalsAfterRun(SetCell(signals, signals.index[i], c, x))
          /\ changed' = signals.index[i]
    /\ engine' = SelfAfterRun(engine)
    /\ prices' = PricesAfterRun(prices)
    /\ UNCHANGED <<report, sgVars, feVars, etlVars, dgVars>>

\* The caller asks the diagnostics of the result for a report.
RunReport ==
    /\ result # NoResult
    /\ result.raised = ""
    /\ report = NoResult
    /\ changed = 0
    /\ NRows(result.prices) <= MaxDays
    /\ Exact(result)
    /\ report' = Report(result)
    /\ result' = ResultAfterReport(result)
    /\ UNCHANGED <<engine, prices, signals, changed, sgVars, feVars, etlVars, dgVars>>

Next == RunBacktest \/ RunPerturbed \/ RunReport

Spec == Init /\ [][Next]_vars

----------------------------------------------------------------------------
(* Properties of the backtest engine                                       *)

\* run has returned a result.
Ran == result # NoResult /\ result.raised = ""

\* run has returned the result of a short table, whose metrics the model
\* evaluates.
RanShort == Ran /\ NRows(result.prices) <= MaxDays

Rows(df) == 1..NRows(df)

Labels(df) == {df.index[i] : i \in Rows(df)}

\* The two tables carry the same dates and the same asset columns.
SameLabels == Labels(prices) = Labels(signals) /\ prices.columns = signals.columns

\* Every position is the aligned signal of the day before, and 0 on the
\* first day.
Lagged ==
    \A i \in Rows(result.raw_positions) : \A c \in result.raw_positions.columns :
        /\ result.raw_positions.v[i][c] =
               (IF i = 1 THEN Zero ELSE result.signals.v[i - 1][c])
        /\ i = 1 => result.positions_sq.v[i][c] = Zero
        /\ engine.target_volatility = None =>
               result.positions_sq.v[i][c] = SignedSq(result.raw_positions.v[i][c])

\* The positions of every date up to the changed date are those of the run
\* before the change.
PositionsKept ==
    \A i \in Rows(result.positions_sq) :
        result.positions_sq.index[i] <= changed' =>
            result'.positions_sq.v[i] = result.positions_sq.v[i]

\* C1: no lookahead on signals.  Changing the signal of a date leaves the
\* positions of every date up to it unchanged, with and without a target
\* volatility; the raw position of a day is the aligned signal of the day
\* before, and the position of the first day is 0.
C1_NoLookahead ==
    /\ [](Ran => Lagged)
    /\ [][(changed = 0 /\ changed' # 0 /\ result'.raised = "") => PositionsKept]_vars

\* A run under a target volatility after the signal of a date was changed, a
\* position of a date up to it carrying a scale that the data decide.
C1_Witness ==
    /\ Ran
    /\ changed # 0
    /\ engine.target_volatility # None
    /\ SameLabels
    /\ \E i \in Rows(result.positions_sq) : \E c \in prices.columns :
          /\ result.positions_sq.index[i] <= changed
          /\ result.raw_positions.v[i][c] # Zero
          /\ result.vol_scale_sq.v[i][c] \notin {Zero, One, Q(4, 1)}

\* C2: run fails with an error whenever the price table and the signal table
\* do not have the same date index and the same asset columns.
C2_MismatchRaises ==
    (result # NoResult /\ ~SameLabels) => result.raised = "ValueError"

AllZero(df) == \A i \in Rows(df) : \A c \in df.columns : df.v[i][c] = Zero

\* C3: zero-signal conservation.  With every signal 0 the turnover and the
\* cost are 0 on every date, there is no trade, and the equity is the initial
\* capital on every date, the first included.
C3_ZeroSignalFlat ==
    (Ran /\ AllZero(signals)) =>
        /\ \A i \in Rows(result.costs) : \A c \in result.costs.columns :
              result.position_changes.v[i][c] = Zero /\ result.costs.v[i][c] = Zero
        /\ result.trade_dates = <<>>
        /\ \A i \in Rows(result.prices) :
              Equity(result).v[i] = engine.initial_capital

\* C4: Sharpe fallback.  When the standard deviation of the excess returns is
\* zero or undefined, sharpe_ratio is 0, for every risk-free rate.
C4_SharpeFallback ==
    (RanShort /\ NanVar(ExcessReturns(result).v) \in {NaN, Zero}) =>
        SharpeRatio(result) = Zero

\* C5: a price table of a single day gives defined, finite metrics, and
\* report() on the result returns.
C5_SingleDayDefined ==
    (Ran /\ NRows(prices) = 1) =>
        /\ IsFinite(Equity(result).v[1])
        /\ IsFinite(CumulativeReturn(result))
        /\ ~PowIsNaN(AnnualizedReturn(result)) /\ ~PowIsInf(AnnualizedReturn(result))
        /\ IsFinite(SharpeRatio(result))
        /\ IsFinite(MaxDrawdown(result))
        /\ IsFinite(WinRate(result))
        /\ report # NoResult => report.raised = ""

CostRate == Add(engine.transaction_costs, engine.slippage)

\* C6: Scenario B cost.  Without a target volatility, on every day the cost
\* of an asset is (transaction_costs + slippage) * |position - position of the
\* day before| (no position before the first day) and is deducted from the
\* asset's return of that day; on the day a position goes from +1 to -1 the
\* turnover is 2 and the cost is (transaction_costs + slippage) * 2.
C6_Cost ==
    (Ran /\ engine.target_volatility = None /\ SameLabels) =>
        \A i \in Rows(result.prices) : \A c \in prices.columns :
            LET pos == Positions(result).v[i][c]
                before == IF i = 1 THEN Zero ELSE Positions(result).v[i - 1][c]
                turnover == Abs(Sub(pos, before))
            IN  /\ result.position_changes.v[i][c] = turnover
                /\ result.costs.v[i][c] = Mul(CostRate, turnover)
                /\ ScaledReturns(result).v[i][c] =
                       Sub(Mul(pos, result.returns.v[i][c]), Mul(CostRate, turnover))
                /\ (before = One /\ pos = Q(-1, 1)) =>
                       /\ result.position_changes.v[i][c] = Two
                       /\ result.costs.v[i][c] = Mul(CostRate, Two)

\* C7: Scenario A.  Asset one's position is 0 on day 1 and +1 on day 2, and
\* asset two, at a flat price, has strategy return 0 on every day.
C7_ScenarioA ==
    (Ran /\ prices = ScenarioAPrices /\ signals = ScenarioASignals) =>
        /\ Positions(result).v[1]["A"] = Zero
        /\ Positions(result).v[2]["A"] = One
        /\ \A i \in Rows(result.prices) : ScaledReturns(result).v[i]["B"] = Zero

Ascending(idx) == \A i \in 1..Len(idx) : \A j \in 1..Len(idx) : i < j => idx[i] < idx[j]

\* C8: shape round-trip.  The equity has one entry per date of the price
\* table, indexed by those dates in ascending order, whatever the order of
\* the rows; the result of a table is the result of the table sorted.
C8_ShapeRoundTrip ==
    RanShort =>
        LET equity == Equity(result)
        IN  /\ Len(equity.v) = Cardinality(Labels(prices))
            /\ Len(equity.index) = Len(equity.v)
            /\ {equity.index[i] : i \in 1..Len(equity.index)} = Labels(prices)
            /\ Ascending(equity.index)
            /\ ~Ascending(prices.index) =>
                   result = Run(engine,
                                Reindex(prices, SortSeq(prices.index, LAMBDA a, b : a < b)),
                                signals)

\* The result of a price table whose rows are not in date order.
C8_Witness ==
    /\ RanShort
    /\ ~Ascending(prices.index)
    /\ NRows(prices) = MaxDays
    /\ Equity(result).index = Days(MaxDays)
    /\ ~IsNaN(Equity(result).v[MaxDays])

\* An engine made anew with the parameters of the engine.
Fresh ==
    BacktestEngine(engine.initial_capital, engine.target_volatility,
                   engine.risk_free_rate, engine.transaction_costs, engine.slippage)

\* C16: determinism and history independence.  run never changes the
\* parameters of the engine, and every call in a sequence of calls on one
\* engine returns what an engine made anew with the same parameters returns
\* for the same tables.
C16_Deterministic ==
    /\ []((result # NoResult /\ NRows(prices) <= MaxDays) =>
              result = Run(Fresh, prices, signals))
    /\ [][engine' = engine]_vars

\* A second call of run on the engine has returned.
C16_Witness == RanShort /\ changed # 0

\* The scale of asset c on day i, as its signed square, and the variance of
\* the asset's strategy returns over the 21 days up to day i.
ScaleSq(i, c) == result.vol_scale_sq.v[i][c]

TrailingVar(i, c) == RollingVar(result.strategy_returns, VolWindow).v[i][c]

\* What C20 holds of every scale, whatever the target: the scale lies in
\* [0, 2], it is 1 where the trailing volatility is undefined, and it is
\* applied to the positions and to the strategy returns, so |position| <= 2.
Clamped(i, c) ==
    /\ ~IsNaN(ScaleSq(i, c)) /\ ~Lt(ScaleSq(i, c), Zero) /\ ~Gt(ScaleSq(i, c), Q(4, 1))
    /\ (i <= VolWindow \/ IsNaN(TrailingVar(i, c))) => ScaleSq(i, c) = One
    /\ result.positions_sq.v[i][c] = Mul(SignedSq(result.raw_positions.v[i][c]), ScaleSq(i, c))
    /\ ~Gt(Abs(result.positions_sq.v[i][c]), Q(4, 1))
    /\ Exact(result) =>
          /\ Positions(result).v[i][c] =
                 Mul(result.raw_positions.v[i][c], Root(ScaleSq(i, c)))
          /\ ScaledReturns(result).v[i][c] =
                 Mul(result.strategy_returns.v[i][c], Root(ScaleSq(i, c)))
          /\ ~Gt(Abs(Positions(result).v[i][c]), Two)

\* A run under a target volatility on tables of the same dates and columns.
Scaled == Ran /\ engine.target_volatility # None /\ SameLabels

\* C20 as stated: with a target volatility the scale lies in [0, 2], is 1
\* where the trailing 21-day volatility is undefined, is 2 where it is zero,
\* and is applied to positions and strategy returns, so |position| <= 2.
C20_VolClamp ==
    Scaled =>
        \A i \in Rows(result.prices) : \A c \in prices.columns :
            /\ Clamped(i, c)
            /\ TrailingVar(i, c) = Zero => ScaleSq(i, c) = Q(4, 1)

\* C20, amended: the scale is 2 where the trailing volatility is zero and the
\* target is positive; where the trailing volatility is zero it is 1 under a
\* target of 0 (0 / 0 is undefined) and 0 under a negative target.
C20_VolClampByTarget ==
    Scaled =>
        \A i \in Rows(result.prices) : \A c \in prices.columns :
            /\ Clamped(i, c)
            /\ TrailingVar(i, c) = Zero =>
                  ScaleSq(i, c) =
                      (IF Gt(engine.target_volatility, Zero) THEN Q(4, 1)
                       ELSE IF engine.target_volatility = Zero THEN One ELSE Zero)

\* A run under a positive target in which the trailing volatility of a held
\* asset is zero on a day and undefined on the days before.
C20_Witness ==
    /\ Scaled
    /\ Gt(engine.target_volatility, Zero)
    /\ \E i \in Rows(result.prices) : \E c \in prices.columns :
          /\ TrailingVar(i, c) = Zero
          /\ IsNaN(TrailingVar(i - 1, c))
          /\ result.raw_positions.v[i][c] = One
          /\ result.positions_sq.v[i][c] = Q(4, 1)
          /\ Positions(result).v[i][c] = Two


\* C23: the win rate is the number of days with a positive daily portfolio
\* return over the number of days with a nonzero one, a day without a
\* return not counted, and 0 when there is no such day.
C23_WinRate ==
    (RanShort /\ Exact(result)) =>
        LET daily == DailyPortfolioReturn(result).v
            positive == Cardinality({i \in 1..Len(daily) : Gt(daily[i], Zero)})
            nonzero == Cardinality({i \in 1..Len(daily) :
                                       ~IsNaN(daily[i]) /\ daily[i] # Zero})
        IN  WinRate(result) = IF nonzero = 0 THEN Zero ELSE Q(positive, nonzero)

\* C24: the per-asset equity of every asset starts at initial_capital over
\* the number of assets, and its cumulative return is the last equity over
\* the first, less 1, a defined number.
C24_PerAssetEquity ==
    (RanShort /\ Exact(result)) =>
        LET per_asset_equity == PerAssetEquity(result)
            n == NRows(per_asset_equity)
            share == Div(engine.initial_capital,
                         Q(Cardinality(prices.columns), 1))
        IN  \A c \in per_asset_equity.columns :
                /\ per_asset_equity.v[1][c] = share
                /\ IsFinite(PerAssetCumulativeReturn(result)[c])
                /\ PerAssetCumulativeReturn(result)[c] =
                       Sub(Div(per_asset_equity.v[n][c], share), One)

----------------------------------------------------------------------------
(* Properties of the diagnostics                                           *)

\* report() has returned the report of the present result.
Reported == Ran /\ changed = 0 /\ report # NoResult /\ report.raised = ""

\* The running maximum of the values eq on day i: the greatest of the defined
\* values up to day i, undefined on a day without a value.
RunningMax(eq, i) ==
    IF IsNaN(eq[i]) THEN NaN
    ELSE LET defined == {j \in 1..i : ~IsNaN(eq[j])}
         IN  eq[CHOOSE j \in defined : \A k \in defined : ~Gt(eq[k], eq[j])]

\* The drawdown of day i: (equity - running maximum) / running maximum.
DrawdownAt(eq, i) == Div(Sub(eq[i], RunningMax(eq, i)), RunningMax(eq, i))

\* C14: drawdown consistency.  The max_drawdown of report() is the minimum
\* over the dates of (equity - running maximum of equity) / running maximum
\* of equity, computed from result.equity, it is result.max_drawdown, and it
\* is never positive.
C14_DrawdownConsistency ==
    Reported =>
        LET eq == Equity(result).v
            dd == [i \in 1..Len(eq) |-> DrawdownAt(eq, i)]
        IN  /\ report.max_drawdown = MaxDrawdown(result)
            /\ \E i \in 1..Len(eq) : dd[i] = report.max_drawdown
            /\ \A i \in 1..Len(eq) : ~Lt(dd[i], report.max_drawdown)
            /\ ~Gt(report.max_drawdown, Zero)

\* A report of a result whose equity fell below its running maximum.
C14_Witness == Reported /\ Lt(report.max_drawdown, Zero)

----------------------------------------------------------------------------
(* The signal generators on their own: a generator, a feature table, and   *)
(* one call of generate.                                                   *)

MaxFeatureRows == 3

Windows == {10, 21, 50, 200}

\* The RSI values of the feature tables, and the thresholds of the generators.
RSIValues == {NaN, Q(25, 1), Q(30, 1), Q(35, 1), Q(70, 1), Q(72, 1)}

RSISignals ==
    {RSISignal(Q(30, 1), Q(70, 1)), RSISignal(Q(35, 1), Q(35, 1)),
     RSISignal(Q(70, 1), Q(30, 1))}

\* Feature paths of close and of the SMA columns: 2 2 2 .., 1 3 1 3 ..,
\* 3 NaN 1 3 NaN 1 ..
FeaturePaths == 1..3

FeatureAt(k, i) ==
    CASE k = 1 -> Two
      [] k = 2 -> Q(1 + 2 * ((i + 1) % 2), 1)
      [] OTHER -> <<Q(3, 1), NaN, One>>[1 + ((i - 1) % 3)]

FeaturePath(idx, c, k) == Column(idx, c, LAMBDA i : FeatureAt(k, i))

RECURSIVE ConcatAll(_)
ConcatAll(fs) == IF Len(fs) = 1 THEN fs[1] ELSE Concat(fs[1], ConcatAll(Tail(fs)))

\* The columns of a table that are in cols.
Keep(df, cols) ==
    DataFrame(df.index, df.columns \cap cols,
              [i \in 1..NRows(df) |-> [c \in df.columns \cap cols |-> df.v[i][c]]])

\* Feature tables for a momentum generator of window w: close, sma_21 and
\* sma_w on their paths, a column named 'sma_{self.window}', or a part of them.
MomentumFeatures(w) ==
    {Keep(ConcatAll(<<FeaturePath(Days(n), "close", kc),
                      FeaturePath(Days(n), "sma_21", k21),
                      FeaturePath(Days(n), SmaName(w), IF w = 21 THEN k21 ELSE kw),
                      FeaturePath(Days(n), "sma_{self.window}", 1)>>), cols) :
        n \in 1..MaxFeatureRows, kc \in FeaturePaths, k21 \in FeaturePaths,
        kw \in FeaturePaths,
        cols \in {{"close", "sma_21", SmaName(w)},
                  {"close", "sma_21"},
                  {"close", SmaName(w)},
                  {"sma_21", SmaName(w)},
                  {"close", "sma_21", SmaName(w), "sma_{self.window}"},
                  {"close", "sma_21", "sma_{self.window}"}}}

RSIFeatures ==
    UNION {{DataFrame(Days(n), {"rsi_14"}, v) :
               v \in [1..n -> [{"rsi_14"} -> RSIValues]]} : n \in 1..MaxFeatureRows}
    \cup {FeaturePath(Days(n), "close", 1) : n \in 1..MaxFeatureRows}

MACDFeatures ==
    {FeaturePath(Days(n), c, k) :
        n \in 1..MaxFeatureRows, c \in {"macd_histogram", "close"}, k \in FeaturePaths}

\* RSI paths: 25 35 72 .., 72 25 NaN .., 35 70 30 ..
RSIAt(k, i) ==
    CASE k = 1 -> <<Q(25, 1), Q(35, 1), Q(72, 1)>>[1 + ((i - 1) % 3)]
      [] k = 2 -> <<Q(72, 1), Q(25, 1), NaN>>[1 + ((i - 1) % 3)]
      [] OTHER -> <<Q(35, 1), Q(70, 1), Q(30, 1)>>[1 + ((i - 1) % 3)]

\* MACD histogram paths: 0 0 0 .., -1 1 -1 .., 1 NaN -1 ..
MACDAt(k, i) == Sub(FeatureAt(k, i), Two)

\* Feature tables for a combiner: close at 2, sma_21, rsi_14 and
\* macd_histogram on their paths, or all of them but one.
CombinerFeatures ==
    {Keep(ConcatAll(<<FeaturePath(Days(n), "close", 1),
                      FeaturePath(Days(n), "sma_21", ks),
                      Column(Days(n), "rsi_14", LAMBDA i : RSIAt(kr, i)),
                      Column(Days(n), "macd_histogram", LAMBDA i : MACDAt(km, i))>>), cols) :
        n \in 1..MaxFeatureRows, ks \in FeaturePaths, kr \in FeaturePaths,
        km \in FeaturePaths,
        cols \in {{"close", "sma_21", "rsi_14", "macd_histogram"},
                  {"close", "sma_21", "macd_histogram"},
                  {"sma_21", "rsi_14", "macd_histogram"}}}

\* The generators of the default configuration, under their names.
DefaultSignals ==
    <<[name |-> "momentum", gen |-> MomentumSignal(21)],
      [name |-> "rsi", gen |-> RSISignal(Q(30, 1), Q(70, 1))],
      [name |-> "macd", gen |-> MACDSignal]>>

\* Combiners: the default configuration, weights for a part of the names, a
\* total weight of 0, a weight for no generator of the combiner, fewer
\* generators, and none.
Combiners ==
    {SignalCombiner(DefaultSignals, None),
     SignalCombiner(DefaultSignals, [n \in {"momentum"} |-> Two]),
     SignalCombiner(DefaultSignals, [momentum |-> One, rsi |-> Q(-1, 1), macd |-> Zero]),
     SignalCombiner(DefaultSignals, [n \in {"other"} |-> Two]),
     SignalCombiner(SubSeq(DefaultSignals, 1, 2), None),
     SignalCombiner(SubSeq(DefaultSignals, 2, 2), None),
     SignalCombiner(<<DefaultSignals[3], [name |-> "momentum", gen |-> MomentumSignal(10)]>>,
                    [n \in {"macd"} |-> Q(1, 2)]),
     SignalCombiner(<<>>, None)}

InitSignals ==
    /\ BacktestIdle
    /\ FeaturesIdle
    /\ PipelineIdle
    /\ DiagnosticsIdle
    /\ signal = NoResult
    /\ \/ \E w \in Windows :
             generator = MomentumSignal(w) /\ features \in MomentumFeatures(w)
       \/ generator \in RSISignals /\ features \in RSIFeatures
       \/ generator = MACDSignal /\ features \in MACDFeatures
       \/ generator \in Combiners /\ features \in CombinerFeatures

\* The caller asks the generator for the signals of its feature table.
GenerateSignal ==
    /\ ~SignalsIdle
    /\ signal = NoResult
    /\ signal' = GenerateAny(generator, features)
    /\ features' = DfAfterGenerate(features)
    /\ UNCHANGED <<btVars, feVars, etlVars, dgVars, generator>>

NextSignals == GenerateSignal

SpecSignals == InitSignals /\ [][NextSignals]_vars

----------------------------------------------------------------------------
(* Properties of the signal generators                                     *)

\* generate has returned the signals of the feature table.
Generated == signal # NoResult /\ signal.raised = ""

\* C9: MomentumSignal(window=W).generate returns, for each day,
\* sign(close - sma_W) on the SMA column of the configured window W whenever
\* the features carry the column sma_W, equality giving 0.
C9_MomentumUsesWindow ==
    (/\ generator.kind = "Momentum"
     /\ signal # NoResult
     /\ {"close", SmaName(generator.window)} \subseteq features.columns) =>
        /\ signal.raised = ""
        /\ \A i \in Rows(features) :
              signal.v[i] =
                  SignInt(Sub(features.v[i]["close"],
                              features.v[i][SmaName(generator.window)]))

\* C10 as stated: +1 exactly on the days with rsi_14 < oversold, -1 exactly on
\* the days with rsi_14 > overbought, 0 on every other day.
C10_RSIExactly ==
    (generator.kind = "RSI" /\ Generated) =>
        \A i \in Rows(features) :
            LET rsi == features.v[i]["rsi_14"]
            IN  /\ signal.v[i] = 1 <=> Lt(rsi, generator.oversold)
                /\ signal.v[i] = -1 <=> Gt(rsi, generator.overbought)
                /\ signal.v[i] \in {-1, 0, 1}

\* C10, amended: -1 exactly on the days with rsi_14 > overbought, +1 exactly
\* on the days with rsi_14 < oversold that are not above overbought, 0 on
\* every other day; a value equal to a threshold and an undefined value give 0
\* unless the other threshold decides, and RSI [25, 35, 72] with 30/70 gives
\* [+1, 0, -1].
C10_RSIOverboughtFirst ==
    (generator.kind = "RSI" /\ Generated) =>
        /\ \A i \in Rows(features) :
              LET rsi == features.v[i]["rsi_14"]
                  above == Gt(rsi, generator.overbought)
                  below == Lt(rsi, generator.oversold)
              IN  /\ signal.v[i] = -1 <=> above
                  /\ signal.v[i] = 1 <=> (below /\ ~above)
                  /\ signal.v[i] = 0 <=> (~below /\ ~above)
                  /\ IsNaN(rsi) => signal.v[i] = 0
                  /\ (rsi = generator.oversold /\ ~above) => signal.v[i] = 0
                  /\ (rsi = generator.overbought /\ ~below) => signal.v[i] = 0
        /\ (/\ generator = RSISignal(Q(30, 1), Q(70, 1))
            /\ NRows(features) = 3
            /\ \A i \in 1..3 :
                  features.v[i]["rsi_14"] = <<Q(25, 1), Q(35, 1), Q(72, 1)>>[i]) =>
               signal.v = <<1, 0, -1>>

\* Scenario D has been generated: RSI [25, 35, 72] under 30/70.
C10_Witness ==
    /\ generator = RSISignal(Q(30, 1), Q(70, 1))
    /\ Generated
    /\ NRows(features) = 3
    /\ \A i \in 1..3 : features.v[i]["rsi_14"] = <<Q(25, 1), Q(35, 1), Q(72, 1)>>[i]
    /\ signal.v = <<1, 0, -1>>

\* The feature columns a generator requires.
Required(self) ==
    CASE self.kind = "Momentum" -> {"close", SmaName(self.window)}
      [] self.kind = "RSI" -> {"rsi_14"}
      [] OTHER -> {"macd_histogram"}

\* C11: generate of a generator raises if and only if a feature column it
\* requires is missing: close and sma_W for Momentum(W), rsi_14 for RSI,
\* macd_histogram for MACD.
C11_RaisesIffMissing ==
    (generator.kind \in {"Momentum", "RSI", "MACD"} /\ signal # NoResult) =>
        (signal.raised # "" <=> ~(Required(generator) \subseteq features.columns))

\* C12: signal domain.  Every value generate returns, of a generator or of a
\* combiner, is -1, 0 or 1, whatever the feature values, NaN included, and
\* the series has one value per row of the feature table.
C12_SignalDomain ==
    Generated =>
        /\ DOMAIN signal.v = 1..NRows(features)
        /\ \A i \in 1..NRows(features) : signal.v[i] \in {-1, 0, 1}

\* A combiner of three generators has returned the signals of a feature
\* table that holds a NaN.
C12_Witness ==
    /\ Generated
    /\ NRows(features) = MaxFeatureRows
    /\ generator.kind = "Combiner"
    /\ Len(generator.signals) = 3
    /\ \E i \in Rows(features) : \E c \in features.columns : IsNaN(features.v[i][c])
    /\ \E i \in Rows(features) : signal.v[i] = -1

\* The score of day i: the outputs of the generators weighted, over the total
\* weight, a generator without a weight counting 1.
Score(i) ==
    LET n == Len(generator.signals)
        w == [k \in 1..n |->
                 IF generator.signals[k].name \in DOMAIN generator.weights
                 THEN generator.weights[generator.signals[k].name]
                 ELSE One]
        out == [k \in 1..n |-> Q(Generate(generator.signals[k].gen, features).v[i], 1)]
    IN  Div(SumSeq([k \in 1..n |-> Mul(w[k], out[k])], n), SumSeq(w, n))

\* C13: SignalCombiner.generate returns on each day +1 if score > 0.33, -1 if
\* score < -0.33 and 0 otherwise, score being the weighted sum of the
\* generators' outputs over the sum of the weights, a generator with no entry
\* in the weights having weight 1.
C13_CombinerScore ==
    (generator.kind = "Combiner" /\ Generated) =>
        \A i \in Rows(features) :
            /\ signal.v[i] = 1 <=> Gt(Score(i), Q(33, 100))
            /\ signal.v[i] = -1 <=> Lt(Score(i), Q(-33, 100))
            /\ signal.v[i] = 0 <=> (~Gt(Score(i), Q(33, 100)) /\ ~Lt(Score(i), Q(-33, 100)))

\* A combiner of three generators with a weight for one of them only has
\* returned +1 on a day and 0 on another.
C13_Witness ==
    /\ generator.kind = "Combiner"
    /\ Generated
    /\ Len(generator.signals) = 3
    /\ DOMAIN generator.weights = {"momentum"}
    /\ \E i \in Rows(features) : signal.v[i] = 1 /\ Score(i) = Q(1, 2)
    /\ \E i \in Rows(features) : signal.v[i] = 0 /\ Score(i) = Q(1, 4)

\* The number of generators of the combiner whose output on day i is x.
Votes(i, x) ==
    Cardinality({k \in 1..Len(generator.signals) :
                    Generate(generator.signals[k].gen, features).v[i] = x})

\* C19: combiner agreement.  With three generators at equal weight the
\* combiner outputs +1 (resp. -1) on a day only if at least two generators
\* output +1 (resp. -1) that day; one generator signalling while the other two
\* are neutral gives 0.
C19_Agreement ==
    (generator = SignalCombiner(DefaultSignals, None) /\ Generated) =>
        \A i \in Rows(features) :
            /\ signal.v[i] = 1 => Votes(i, 1) >= 2
            /\ signal.v[i] = -1 => Votes(i, -1) >= 2
            /\ Votes(i, 0) = 2 => signal.v[i] = 0

----------------------------------------------------------------------------
(* The feature engine on its own: an OHLCV table and one call of           *)
(* compute_all.                                                            *)

\* Price paths without gaps: 2 2 2 .., 1 3 1 3 .., 2 3 4 5 ..
OhlcvPaths == 1..3

OhlcvAt(k, i) ==
    CASE k = 1 -> Two
      [] k = 2 -> Q(1 + 2 * ((i + 1) % 2), 1)
      [] OTHER -> Q(1 + i, 1)

OhlcvPath(idx, c, k) == Column(idx, c, LAMBDA i : OhlcvAt(k, i))

\* OHLCV tables: close alone, all five columns, a table without close, and
\* close with the volume.
OhlcvTables ==
    {Keep(ConcatAll(<<OhlcvPath(Days(n), "open", ko),
                      OhlcvPath(Days(n), "high", ko),
                      OhlcvPath(Days(n), "low", ko),
                      OhlcvPath(Days(n), "close", kc),
                      OhlcvPath(Days(n), "volume", ko)>>), cols) :
        n \in 1..MaxFeatureRows, ko \in OhlcvPaths, kc \in OhlcvPaths,
        cols \in {{"close"},
                  {"open", "high", "low", "close", "volume"},
                  {"open", "high", "low", "volume"},
                  {"close", "volume"}}}

InitFeatures ==
    /\ BacktestIdle
    /\ SignalsIdle
    /\ PipelineIdle
    /\ DiagnosticsIdle
    /\ ohlcv \in OhlcvTables
    /\ include_ta \in BOOLEAN
    /\ computed = NoResult

\* The caller asks the feature engine for the features of its table.
ComputeFeatures ==
    /\ ~FeaturesIdle
    /\ computed = NoResult
    /\ computed' = ComputeAll(ohlcv, include_ta)
    /\ ohlcv' = DfAfterComputeAll(ohlcv)
    /\ UNCHANGED <<btVars, sgVars, etlVars, dgVars, include_ta>>

NextFeatures == ComputeFeatures

SpecFeatures == InitFeatures /\ [][NextFeatures]_vars

----------------------------------------------------------------------------
(* Properties of the feature engine                                        *)

\* compute_all has returned a table.
Computed == computed # NoResult /\ computed.raised = ""

\* The elements of a list.
Range(s) == {s[i] : i \in DOMAIN s}

\* C15: get_feature_names() lists, each once, exactly the columns that
\* compute_all adds to the caller's table, with include_ta true and with
\* include_ta false.
C15_FeatureNames ==
    Computed =>
        /\ Range(GetFeatureNames) = computed.columns \ ohlcv.columns
        /\ Cardinality(Range(GetFeatureNames)) = Len(GetFeatureNames)

\* With include_ta true the list and the added columns agree.
C15_FeatureNamesWithTA ==
    (Computed /\ include_ta) => C15_FeatureNames

\* The rows a windowed column needs before it has a value: the row itself
\* counts for a rolling window, not for a return over k days.
Lookback(c) ==
    CASE c = "return_1d" -> 2
      [] c \in {"return_5d", "realized_vol_5d"} -> 6
      [] c \in {"return_21d", "volatility_21d", "momentum_21"} -> 22
      [] c = "volatility_63d" -> 64
      [] c \in {"sma_10"} -> 10
      [] c = "momentum_10" -> 11
      [] c \in {"sma_21", "price_to_sma_21"} -> 21
      [] c \in {"sma_50", "price_to_sma_50", "sma_10_above_50"} -> 50
      [] c \in {"sma_200", "price_to_sma_200", "sma_50_above_200"} -> 200
      [] c \in {"rsi_14", "atr_14"} -> 14
      [] c \in {"bb_upper", "bb_lower", "bb_position"} -> 20
      [] OTHER -> 0

\* C25: a windowed feature column is NaN on every row that has not the
\* observations of its lookback, never 0 or another number.
C25_LookbackUndefined ==
    Computed =>
        \A c \in computed.columns, i \in 1..Len(computed.index) :
            i < Lookback(c) => computed.isna[i][c]

\* The same of the columns other than the SMA cross flags, RSI and ATR.
LookbackUndefinedElsewhere ==
    Computed =>
        \A c \in computed.columns \ {"sma_10_above_50", "sma_50_above_200",
                                     "rsi_14", "atr_14"},
           i \in 1..Len(computed.index) :
            i < Lookback(c) => computed.isna[i][c]

----------------------------------------------------------------------------
(* The stages side by side: a feature engine, a signal generator, or a     *)
(* backtest engine with the diagnostics of its result.                     *)

InitPipeline ==
    \/ /\ SignalsIdle
       /\ FeaturesIdle
       /\ PipelineIdle
       /\ DiagnosticsIdle
       /\ InitWith(PermutedInputs \cup NaNSignalInputs, FewEngines)
    \/ InitSignals
    \/ InitFeatures

NextPipeline == Next \/ NextSignals \/ NextFeatures

SpecPipeline == InitPipeline /\ [][NextPipeline]_vars

\* The caller has replaced one cell of its signal table.
OneCellReplaced ==
    \E c \in signals.columns, x \in SignalValues :
        signals' = SetCell(signals, changed', c, x)

\* C17: no stage changes what it is given.  compute_all leaves the caller's
\* price table as it was, generate the feature table, run the price table
\* and the signal table (which changes only where the caller itself replaces
\* a cell before a run), and report, with the diagnostics it calls, every
\* field of the BacktestResult.
C17_NoInputMutation ==
    [][/\ ohlcv' = ohlcv
       /\ features' = features
       /\ prices' = prices
       /\ engine' = engine
       /\ (changed' = changed => signals' = signals)
       /\ (changed' # changed => OneCellReplaced)
       /\ (report' # report => result' = result)]_vars

\* run has returned on a price table that is not in date order, and report
\* has returned on its result.
C17_Witness == Reported /\ ~Ascending(prices.index)

----------------------------------------------------------------------------
(* The ETL pipeline on its own: a source, an empty database, and runs of   *)
(* the pipeline one after the other.                                       *)

\* Bounds: the dates a source has prices for, and the runs of one pipeline.
MaxDate == 3
MaxRuns == 3

\* Symbol A has a price on every date, B on the even dates, X on none.
Sources ==
    {[A |-> 1..MaxDate, B |-> {d \in 1..MaxDate : d % 2 = 0}, X |-> {}]}

\* The symbol lists of the runs: one symbol, two, a symbol the source does
\* not know before one it knows, and a symbol listed twice.
SymbolLists == {<<"A">>, <<"A", "B">>, <<"X", "A">>, <<"A", "A">>}

DateRanges == {r \in (1..MaxDate) \X (1..MaxDate) : r[1] <= r[2]}

InitETL ==
    /\ BacktestIdle
    /\ SignalsIdle
    /\ FeaturesIdle
    /\ DiagnosticsIdle
    /\ source \in Sources
    /\ db = EmptyDb
    /\ call = NoCall
    /\ stats = NoResult

\* The caller runs the pipeline: run(symbols, start_date, end_date,
\* skip_existing).
RunPipeline ==
    /\ ~PipelineIdle
    /\ db.load_log.id < MaxRuns
    /\ \E symbols \in SymbolLists, r \in DateRanges, skip_existing \in BOOLEAN :
          LET out == PipelineRun(source, db, symbols, r[1], r[2], skip_existing)
          IN  /\ db' = out.db
              /\ stats' = [x \in DOMAIN out \ {"db"} |-> out[x]]
              /\ call' = [symbols |-> symbols, start_date |-> r[1],
                          end_date |-> r[2], skip_existing |-> skip_existing]
    /\ UNCHANGED <<btVars, sgVars, feVars, dgVars, source>>

NextETL == RunPipeline

SpecETL == InitETL /\ [][NextETL]_vars

----------------------------------------------------------------------------
(* Properties of the ETL pipeline                                          *)

\* The rows the source returns for the symbols of a run.
RECURSIVE RowsFetched(_, _, _)
RowsFetched(symbols, start_date, end_date) ==
    IF symbols = <<>> THEN 0
    ELSE LET df == FetchPrices(source, Head(symbols), start_date, end_date)
         IN  (IF df.raised = "" THEN Len(df.dates) ELSE 0)
             + RowsFetched(Tail(symbols), start_date, end_date)

\* The step is a run with the arguments of the run before it, which has
\* returned, and with skip_existing=True.
RunsAgain ==
    /\ stats # NoResult
    /\ stats.raised = ""
    /\ db'.load_log.id = db.load_log.id + 1
    /\ call'.symbols = call.symbols
    /\ call'.start_date = call.start_date
    /\ call'.end_date = call.end_date
    /\ call'.skip_existing

\* C18: a run that repeats the arguments of a completed run, with
\* skip_existing=True, inserts no record, counts every row it fetched as
\* skipped, and leaves prices_daily as it was.
C18_Idempotent ==
    [][RunsAgain =>
          /\ stats'.raised = ""
          /\ stats'.stats.records_inserted = 0
          /\ stats'.stats.records_skipped =
                 RowsFetched(call.symbols, call.start_date, call.end_date)
          /\ db'.prices_daily = db.prices_daily]_vars

\* The same, when the completed run itself had skip_existing=True.
IdempotentAfterSkipping ==
    [][(RunsAgain /\ call.skip_existing) =>
          /\ stats'.raised = ""
          /\ stats'.stats.records_inserted = 0
          /\ stats'.stats.records_skipped =
                 RowsFetched(call.symbols, call.start_date, call.end_date)
          /\ db'.prices_daily = db.prices_daily]_vars


\* The step is a run of the pipeline.
Runs == db'.load_log.id = db.load_log.id + 1

\* C29: the records_inserted that a run reports is the number of rows the
\* run has added to prices_daily, whatever the database held before and
\* with either value of skip_existing.  (prices_daily holds a row once: it
\* is a set of (instrument, date).)
C29_CountAccuracy ==
    [][(Runs /\ stats'.raised = "") =>
          stats'.stats.records_inserted =
              Cardinality(db'.prices_daily \ db.prices_daily)]_vars

\* The same of the runs with skip_existing=True.
CountAccuracyWhenSkipping ==
    [][(Runs /\ stats'.raised = "" /\ call'.skip_existing) =>
          stats'.stats.records_inserted =
              Cardinality(db'.prices_daily \ db.prices_daily)]_vars

\* The source has no price of the symbol in the range of the call.
FetchFails(symbol, c) ==
    FetchPrices(source, symbol, c.start_date, c.end_date).raised # ""

\* C30: failure isolation.  A symbol whose fetch raises DataSource_error is
\* logged as FAILED and every other symbol of the list is processed, in the
\* order of the list; when run returns, symbols_processed + symbols_failed
\* is the number of symbols given and the job's row of data_load_log has
\* the status SUCCESS and a completed_at.
C30_FailureIsolation ==
    [][(Runs /\ stats'.raised = "") =>
          LET symbols == call'.symbols
              rows == db'.load_symbols
          IN  /\ stats'.stats.symbols_processed + stats'.stats.symbols_failed
                     = Len(symbols)
              /\ stats'.stats.symbols_failed =
                     Cardinality({k \in 1..Len(symbols) : FetchFails(symbols[k], call')})
              /\ Len(rows) = Len(symbols)
              /\ \A k \in 1..Len(symbols) :
                    /\ rows[k].symbol = symbols[k]
                    /\ rows[k].status =
                           IF FetchFails(symbols[k], call') THEN "FAILED" ELSE "SUCCESS"
                    /\ ~FetchFails(symbols[k], call') => symbols[k] \in db'.instruments
              /\ db'.load_log.status = "SUCCESS"
              /\ db'.load_log.completed_at # "None"]_vars

\* A run has returned that failed to fetch its first symbol and loaded
\* prices of a later one.
C30_Witness ==
    /\ stats # NoResult
    /\ stats.raised = ""
    /\ Len(call.symbols) >= 2
    /\ FetchFails(call.symbols[1], call)
    /\ stats.stats.symbols_failed = 1
    /\ stats.stats.symbols_processed = Len(call.symbols) - 1
    /\ stats.stats.records_inserted > 0
    /\ db.load_log.status = "SUCCESS"

----------------------------------------------------------------------------
(* The diagnostics on their own: the equity curve of a result, and one     *)
(* call each of max_drawdown_duration and longest_drawdown_run_days.       *)

\* Bound: the dates of an equity curve.
MaxCurveDays == 4

CurveValues == {One, Two, Q(3, 1)}

\* Equity curves: positive values, with or without the undefined first day
\* that run leaves in its equity.
Curves ==
    UNION {{Series(Days(n), v) : v \in [1..n -> CurveValues]}
           \cup {Series(Days(n), [i \in 1..n |-> IF i = 1 THEN NaN ELSE v[i]]) :
                    v \in [1..n -> CurveValues]} :
           n \in 1..MaxCurveDays}

InitDiagnostics ==
    /\ BacktestIdle
    /\ SignalsIdle
    /\ FeaturesIdle
    /\ PipelineIdle
    /\ curve \in Curves
    /\ measured = NotMeasured

\* The caller asks for max_drawdown_duration().
CallMaxDrawdownDuration ==
    /\ Len(curve.v) > 0
    /\ measured.duration = NoResult
    /\ measured' = [measured EXCEPT !.duration =
                       IF DurationRaises(curve) THEN [raised |-> "ValueError"]
                       ELSE [raised |-> "", days |-> Duration(curve)]]
    /\ UNCHANGED <<btVars, sgVars, feVars, etlVars, curve>>

\* The caller asks for longest_drawdown_run_days().
CallLongestDrawdownRunDays ==
    /\ Len(curve.v) > 0
    /\ measured.longest = NoResult
    /\ measured' = [measured EXCEPT !.longest =
                       [raised |-> "", days |-> LongestRun(curve)]]
    /\ UNCHANGED <<btVars, sgVars, feVars, etlVars, curve>>

NextDiagnostics == CallMaxDrawdownDuration \/ CallLongestDrawdownRunDays

SpecDiagnostics == InitDiagnostics /\ [][NextDiagnostics]_vars

----------------------------------------------------------------------------
(* Properties of the diagnostics of an equity curve                        *)

\* Day t is a worst-drawdown trough of the curve.
WorstTrough(t) ==
    /\ ~IsNaN(DrawdownAt(curve.v, t))
    /\ \A i \in 1..Len(curve.v) : ~Lt(DrawdownAt(curve.v, i), DrawdownAt(curve.v, t))

\* The last day at or before t on which equity stood at its running peak.
LastPeak(t) ==
    LET at_peak == {j \in 1..t : curve.v[j] = RunningMax(curve.v, t)}
    IN  CHOOSE j \in at_peak : \A k \in at_peak : k <= j

\* C21: max_drawdown_duration() is the number of trading days from the last
\* day on which equity stood at its running peak, at or before the
\* worst-drawdown trough, to that trough, also when equity stood at that
\* peak on several days.
C21_DurationFromLastPeak ==
    measured.duration.raised = "" =>
        \E t \in 1..Len(curve.v) :
            WorstTrough(t) /\ measured.duration.days = t - LastPeak(t)

\* Equity is strictly below its running maximum on day i.
Below(i) == Lt(curve.v[i], RunningMax(curve.v, i))

\* Every day from a to b is below the running maximum.
BelowRun(a, b) == a <= b /\ \A i \in a..b : Below(i)

C28_LongestCoversDuration ==
    (measured.duration.raised = "" /\ measured.longest.raised = "") =>
        measured.longest.days >= measured.duration.days

----------------------------------------------------------------------------
(* The vectorized engine on its own: market data, a signal table, and one  *)
(* call of run.                                                            *)

VolWindows == {2, 20}

VectorizedEngines(close) ==
    {VectorizedBacktestEngine([close |-> close], close.columns, w, g) :
        w \in VolWindows, g \in {One, Two}}

InitVectorized ==
    /\ SignalsIdle
    /\ FeaturesIdle
    /\ PipelineIdle
    /\ DiagnosticsIdle
    /\ \E in \in OneAssetInputs \cup TwoAssetInputs :
          /\ prices = in[1]
          /\ signals = in[2]
          /\ engine \in VectorizedEngines(in[1])
    /\ result = NoResult
    /\ changed = 0
    /\ report = NoResult

\* The caller runs the vectorized engine on its signal table.
RunVectorized ==
    /\ ~BacktestIdle
    /\ result = NoResult
    /\ result' = VectorizedRun(engine, signals)
    /\ UNCHANGED <<engine, prices, signals, changed, report, sgVars, feVars,
                   etlVars, dgVars>>

NextVectorized == RunVectorized

SpecVectorized == InitVectorized /\ [][NextVectorized]_vars

----------------------------------------------------------------------------
(* Properties of the vectorized engine                                     *)

\* C26: run returns, its positions hold no NaN and no infinite value, and
\* on every date the sum over the assets of |position| is
\* target_gross_exposure.
C26_GrossExposure ==
    result # NoResult =>
        /\ result.raised = ""
        /\ \A i \in Rows(result.positions) :
              /\ \A c \in result.positions.columns :
                    IsFinite(result.positions.v[i][c])
              /\ NanSum([k \in 1..Cardinality(result.positions.columns) |->
                            Abs(RowVals(result.positions, i)[k])])
                     = engine.target_gross_exposure

\* The positions that _build_positions builds of the signals and of the
\* volatility of the prices, called apart from run, have the gross exposure
\* target_gross_exposure on every date (where the volatility is rational).
BuiltPositionsHoldExposure ==
    LET variance == EstimateVariance(engine, PctChange(prices))
        rational == \A i \in Rows(variance), c \in variance.columns :
                        IsNaN(variance.v[i][c]) \/ HasRoot(variance.v[i][c])
    IN  (SameLabels /\ rational) =>
            LET positions == BuildPositions(engine, signals, MapDF(Root, variance))
            IN  \A i \in Rows(positions) :
                    RowSum(MapDF(Abs, positions)).v[i] = engine.target_gross_exposure

----------------------------------------------------------------------------
(* The backtest engine under a change of a price: tables longer than the   *)
(* volatility window, a run, and a run after the caller has changed the    *)
(* price of one date.                                                      *)

\* The prices the caller changes a price to.
NewPrices == {Q(3, 1), Q(1, 2)}

InitPrices ==
    /\ SignalsIdle
    /\ FeaturesIdle
    /\ PipelineIdle
    /\ DiagnosticsIdle
    /\ InitWith(LongInputs, VolEngines)

\* The caller changes the price of one date and one asset and runs again.
RunPerturbedPrice ==
    /\ result # NoResult
    /\ result.raised = ""
    /\ changed = 0
    /\ \E i \in 1..NRows(prices), c \in prices.columns, x \in NewPrices :
          /\ i > NRows(prices) - ChangeDays
          /\ x # prices.v[i][c]
          /\ result' = Run(engine, SetCell(prices, prices.index[i], c, x), signals)
          /\ prices' = PricesAfterRun(SetCell(prices, prices.index[i], c, x))
          /\ changed' = prices.index[i]
    /\ engine' = SelfAfterRun(engine)
    /\ signals' = SignalsAfterRun(signals)
    /\ UNCHANGED <<report, sgVars, feVars, etlVars, dgVars>>

NextPrices == RunBacktest \/ RunPerturbedPrice

SpecPrices == InitPrices /\ [][NextPrices]_vars

\* C27: no lookahead on prices.  With a target volatility, changing the
\* price of a date leaves the positions of every date up to it, that date
\* included, as they were.
C27_NoPriceLookahead ==
    [][(changed = 0 /\ changed' # 0 /\ prices' # prices /\ result'.raised = "")
          => PositionsKept]_vars

\* The same of the dates before the date of the changed price.
PositionsBeforeKept ==
    [][(changed = 0 /\ changed' # 0 /\ prices' # prices /\ result'.raised = "")
          => \A i \in Rows(result.positions_sq) :
                 result.positions_sq.index[i] < changed' =>
                     result'.positions_sq.v[i] = result.positions_sq.v[i]]_vars

====
